---- MODULE Spec2Model ----
(***************************************************************************)
(* A model of the pool-state cache (MarketDataService), of the strategy    *)
(* decision pipeline (BaseStrategy / BalancedLiquidityStrategy) and of the *)
(* StrategyRegistry of the Meteora DLMM automation bot.                    *)
(*                                                                         *)
(* JavaScript runs one task at a time: a handler runs without interruption *)
(* up to its next await.  Every action below is one such uninterrupted     *)
(* stretch of a handler; the awaits on the pool-data collaborator are the  *)
(* points where other handlers interleave.                                 *)
(***************************************************************************)
EXTENDS Integers, Sequences, FiniteSets, TLC

(***************************************************************************)
(* Bounds of the model.                                                    *)
(***************************************************************************)
\* milliseconds the clock advances in one step
ClockStep == 15000
\* number of clock steps explored
MaxClockSteps == 4

\* pool addresses
Addrs == {"p1", "p2"}
\* concurrent callers of getPoolData
Callers == {"c1", "c2"}
\* overlapping runs of the periodic callback
Tickers == {"t1", "t2"}

\* hours the clock of the history store advances in one step
HourStep == 12
\* number of steps the clock of the history store takes
MaxHourSteps == 2
\* rows historical_data_points holds at most
MaxRows == 2
\* the longest pools list of a getMarketData call
MaxPools == 3
\* the most rows of the positions table
MaxPositions == 2
\* significant decimal digits a number keeps.  A JavaScript number is a
\* binary floating-point value of 53 significant bits; the model rounds to
\* nearest, ties to even, as the program does, at this many decimal digits
SignificantDigits == 3
\* decimal places a quotient of two Bigs keeps, rounding half up.  big.js
\* keeps 20 (Big.DP), more than a number holds; the model keeps this many
DecimalPlaces == 3

(***************************************************************************)
(* Program constants.                                                      *)
(***************************************************************************)
\* MarketDataService.updateInterval, milliseconds
updateInterval == 30000

\* BalancedLiquidityStrategy.minRebalanceInterval, milliseconds
minRebalanceInterval == 300000
\* the volatility above which BalancedLiquidityStrategy refuses new positions,
\* in hundredths (the source's 0.4)
createVolatilityLimit == 40

\* HistoricalDataService.cleanup: the retention period, hours (90 days)
retentionPeriod == 90 * 24
\* HistoricalDataService.getLast24HourData: the trailing window, hours
oneDay == 24

(***************************************************************************)
(* Values of the strategy model.  An optional JavaScript value is <<>>     *)
(* when undefined and <<v>> when it holds v.  Amounts are whole units;     *)
(* slippage and volatility are in hundredths.                              *)
(***************************************************************************)
Undefined == <<>>
Some(v) == <<v>>

\* milliseconds the strategy's clock advances in one step
StrategyClockStep == 150000
\* number of clock steps the strategy is followed for
MaxStrategySteps == 2
\* the clock at construction: later than the epoch by more than any interval
StartTime == 600000

\* the history store counts time in hours: the hour at construction, later
\* than the epoch by more than the retention period
StartHour == 3000

RiskA == [maxSlippage |-> 2, volatilityThreshold |-> 50]
RiskB == [maxSlippage |-> 1, volatilityThreshold |-> 35]

ConfigOf(addr, maxPos, risk) ==
    [poolAddress |-> addr, maxPositionSize |-> maxPos, riskParameters |-> risk,
     targetRange |-> Undefined, rebalanceThreshold |-> Undefined,
     minLiquidityAmount |-> Undefined, maxLiquidityAmount |-> Undefined]

\* configurations validateConfig accepts
ValidConfigs == {ConfigOf("p1", Some(2), Some(RiskA)), ConfigOf("p1", Some(3), Some(RiskB))}
\* configurations validateConfig rejects, one per check
InvalidConfigs ==
    {ConfigOf("", Some(2), Some(RiskA)), ConfigOf("p1", Undefined, Some(RiskA)),
     ConfigOf("p1", Some(0), Some(RiskA)), ConfigOf("p1", Some(2), Undefined)}
Configs == ValidConfigs \cup InvalidConfigs

\* candidate actions: type, pool, parameters.liquidityAmount,
\* parameters.slippage, priority
ActionTypes == {"collect_fees", "rebalance", "create_position"}
Shapes == {<<Undefined, Undefined>>, <<Some(3), Undefined>>, <<Some(2), Some(2)>>}
\* a fee collection carries neither an amount nor a slippage
ShapesOf(t) == IF t = "collect_fees" THEN {<<Undefined, Undefined>>} ELSE Shapes
Universe ==
    {[type |-> sel[1], poolAddress |-> "p1", liquidityAmount |-> sel[2][1],
      slippage |-> sel[2][2], priority |-> pr] :
        sel \in {x \in ActionTypes \X Shapes : x[2] \in ShapesOf(x[1])},
        pr \in {50, 80}}

\* the units of onAnalyze, in the order it runs them, and the type of the
\* action each one pushes
Units == <<"fee", "rebalance", "position">>
UnitNames == {Units[i] : i \in DOMAIN Units}
UnitType(u) == CASE u = "fee" -> "collect_fees"
                 [] u = "rebalance" -> "rebalance"
                 [] u = "position" -> "create_position"
\* one run of a unit: the actions it returns (it pushes at most one) and
\* whether an error was raised inside it
UnitRuns(u) ==
    [actions : {<<>>} \cup {<<action>> : action \in {x \in Universe : x.type = UnitType(u)}},
     threw : BOOLEAN]
AnalysisRuns ==
    {[fee |-> f, rebalance |-> r, position |-> p] :
        f \in UnitRuns("fee"), r \in UnitRuns("rebalance"), p \in UnitRuns("position")}

\* MarketData.pools as the strategy reads it: per address no entry, or an
\* entry whose volatility field is undefined or a number
Absent == [present |-> FALSE, volatility |-> Undefined]
PoolViews == {Absent} \cup
    {[present |-> TRUE, volatility |-> v] : v \in {Undefined, Some(30), Some(45), Some(60)}}
MarketDatas == {md \in [Addrs -> PoolViews] : md["p2"] = Absent}

\* configurations of the balanced-liquidity strategy: the defaults (a range
\* of 10 bins either side), a range of 100 bins with a lower volatility
\* threshold, a small maxPositionSize, a range of 0 bins and a negative
\* range
BalancedConfigs ==
    {ConfigOf("p1", Some(10000), Some(RiskA)),
     [ConfigOf("p1", Some(10000), Some(RiskB)) EXCEPT !.targetRange = Some(100)],
     ConfigOf("p1", Some(500), Some(RiskA)),
     [ConfigOf("p1", Some(10000), Some(RiskA)) EXCEPT !.targetRange = Some(0)],
     [ConfigOf("p1", Some(10000), Some(RiskA)) EXCEPT !.targetRange = Some(0 - 1)]}

\* the pool entries the analysis reads: volatility and apr in hundredths,
\* liquidity and fees24h whole
PoolEntry(activeId, volatility, apr, liquidity, fees24h) ==
    [present |-> TRUE, volatility |-> Some(volatility), activeId |-> activeId,
     apr |-> apr, liquidity |-> liquidity, fees24h |-> fees24h]
ActiveIds == {0 - 7, 0, 5}
PoolEntries ==
    {PoolEntry(activeId, 30, 20, 100000, 20) : activeId \in ActiveIds}
        \cup {PoolEntry(activeId, 50, 20, 100000, 20) : activeId \in ActiveIds}
        \cup {PoolEntry(activeId, 30, 5, 5000, 5) : activeId \in ActiveIds}
        \cup {PoolEntry(5, 30, 40, 100000, 3000)}
BalancedMarketDatas ==
    {md \in [Addrs -> PoolEntries \cup {Absent}] : md["p2"] = Absent}

\* what an execution can throw: an Error with a message, a bare string, null
Messages == {"insufficient funds", "blockhash not found"}
Thrown == [kind : {"Error", "string"}, message : Messages]
             \cup {[kind |-> "null", message |-> ""]}
\* how onExecute ends: it returns a result, its own or the execution
\* service's, or it throws
ExecutionResults == {[success |-> TRUE, error |-> Undefined]}
                        \cup {[success |-> FALSE, error |-> Some(m)] : m \in Messages}
ExecutionRuns == {[kind |-> "returns", result |-> r, thrown |-> [kind |-> "null", message |-> ""]] :
                      r \in ExecutionResults}
                     \cup {[kind |-> "throws", result |-> [success |-> TRUE, error |-> Undefined],
                             thrown |-> e] : e \in Thrown}

NoRun == [op |-> "none"]

\* the active bin of the pool entry analyze() read last, the time execute()
\* last ran a rebalance, and whether cleanup() ran since
NothingSeen == [observed |-> Undefined, rebalanced |-> Undefined, cleanedUp |-> FALSE]

\* strategy names, and the strategy objects: two instances under each name
Names == {"balanced_liquidity", "conservative", "aggressive"}
Instances == {1, 2}
Strategies == [name : Names, instance : Instances]
NoStrategy == [name |-> "", instance |-> 0]
NoLookup == [op |-> "none"]
NoQuery == [op |-> "none"]
NoMetric == [op |-> "none"]

\* a cached PoolData: its address and lastUpdated fields
Snapshot(a, t) == [address |-> a, lastUpdated |-> t]
NoSnap == [address |-> "", lastUpdated |-> -1]
NoCall == [op |-> "none", addr |-> "", outcome |-> "none", snap |-> NoSnap,
           before |-> NoSnap, refresh |-> "none", solo |-> FALSE, fresh |-> FALSE,
           tracked |-> FALSE]
IdleProc == [pc |-> "idle", addr |-> "", solo |-> FALSE, fresh |-> FALSE, idx |-> 0]
IdleMarket == [pc |-> "idle", phase |-> 0, addr |-> "", idx |-> 0, pools |-> <<>>,
               failed |-> {}, tracked |-> {}]
IdleOrder == [pc |-> "idle"]

VARIABLES
    now,            \* the wall clock (Date.now()), milliseconds
    dlmmInstances,  \* Map<string, DLMM>: the tracked addresses, in insertion order
    poolCache,      \* Map<string, PoolData>: address -> snapshot, NoSnap when absent
    timerOn,        \* startPeriodicUpdates() has installed the interval timer
    lastFire,       \* when the interval timer was installed or was last due
    call,           \* per caller: the getPoolData call it has in flight
    tick,           \* per run of the periodic callback: its position
    adder,          \* the addPool call in flight
    everAdded,      \* history: addresses addPool was ever called with
    lastCall,       \* history: the operation that completed last, and its outcome
    historicalData, \* per pool, the rows of historical_data_points, oldest first
    stopped,        \* history: how the service was stopped, "no" while it runs
    strategy,       \* the fields of the strategy instance
    lastRun,        \* history: the strategy call awaiting its caller, and its outcome
    seen,           \* history: what the strategy's callers did since construction
    strategies,     \* StrategyRegistry.strategies: Map<string, Strategy>, in insertion order
    registered,     \* history: per name, the strategy registered last and not removed since
    lastLookup,     \* history: the registry call made last, and its outcome
    hour,           \* the wall clock of the history store, in hours
    lastQuery,      \* history: the HistoricalDataService call made last, and its outcome
    lastMetric,     \* history: the MetricsService call made last, and its outcome
    market,         \* the getMarketData call in flight, or the one that completed last
    positions,      \* the rows of the positions table, in insertion order
    order           \* the executeAction call in flight, or the one that completed last

cacheVars == <<now, dlmmInstances, poolCache, timerOn, lastFire, call, tick,
               adder, everAdded, lastCall, historicalData, stopped>>
stratVars == <<strategy, lastRun, seen>>
regVars == <<strategies, registered, lastLookup>>
auxVars == <<hour, lastQuery, lastMetric>>
svcVars == <<market, positions, order>>
vars == <<cacheVars, stratVars, regVars, auxVars, svcVars>>

(***************************************************************************)
(* Helpers over the two maps.                                              *)
(***************************************************************************)
Tracked == {dlmmInstances[i] : i \in 1..Len(dlmmInstances)}

Cached == {a \in Addrs : poolCache[a] # NoSnap}

PosOf(a) == CHOOSE i \in 1..Len(dlmmInstances) : dlmmInstances[i] = a

\* Map.delete: the entry leaves the insertion order
MapDelete(a) == SelectSeq(dlmmInstances, LAMBDA x : x # a)

\* Map.set: a new key is appended, an existing key keeps its place
MapSet(a) == IF a \in Tracked THEN dlmmInstances ELSE Append(dlmmInstances, a)

\* this.dlmmInstances.get(poolAddress) is defined
hasDlmmAlways(a) == TRUE
hasDlmm(a) == a \in Tracked

\* isCacheValid(lastUpdate)
isCacheValidBroken(lastUpdate) == (now - lastUpdate) <= updateInterval
isCacheValid(lastUpdate) == (now - lastUpdate) < updateInterval

\* the refreshes (updatePoolData runs) of address a that are in flight
CallerRefreshes(a) == {c \in Callers : call[c].pc = "updating" /\ call[c].addr = a}
TickRefreshes(a) == {t \in Tickers : tick[t].pc = "updating" /\ tick[t].addr = a}
AdderRefreshes(a) == IF adder.pc = "updating" /\ adder.addr = a THEN {"adder"} ELSE {}
InFlight(a) == CallerRefreshes(a) \cup TickRefreshes(a) \cup AdderRefreshes(a)

\* some handler is between two of its awaits
Busy ==
    \/ \E c \in Callers : call[c].pc # "idle"
    \/ \E t \in Tickers : tick[t].pc # "idle"
    \/ adder.pc # "idle"

\* an operation starts: no call in flight is alone any more
Disturb(calls) == [c \in Callers |-> [calls[c] EXCEPT !.solo = FALSE]]

\* history: address a has a cached snapshot younger than the update interval
Fresh(a) == poolCache[a] # NoSnap /\ now - poolCache[a].lastUpdated < updateInterval

TickDue == timerOn /\ now - lastFire >= updateInterval

Init ==
    /\ now = StartTime
    /\ dlmmInstances = <<>>
    /\ poolCache = [a \in Addrs |-> NoSnap]
    /\ timerOn = FALSE
    /\ lastFire = StartTime
    /\ call = [c \in Callers |-> IdleProc]
    /\ tick = [t \in Tickers |-> IdleProc]
    /\ adder = IdleProc
    /\ everAdded = {}
    /\ lastCall = NoCall
    /\ strategy = [config |-> Undefined, isInitialized |-> FALSE,
                   balancedConfig |-> Undefined, lastActiveBinId |-> 0,
                   lastRebalanceTime |-> 0, phase |-> "uninitialized"]
    /\ lastRun = NoRun
    /\ seen = NothingSeen
    /\ historicalData = [a \in Addrs |-> <<>>]
    /\ stopped = "no"
    /\ strategies = <<>>
    /\ registered = [name \in Names |-> NoStrategy]
    /\ lastLookup = NoLookup
    /\ hour = StartHour
    /\ lastQuery = NoQuery
    /\ lastMetric = NoMetric
    /\ market = IdleMarket
    /\ positions = <<>>
    /\ order = IdleOrder

(***************************************************************************)
(* The clock.  A due timer callback runs before time moves on.             *)
(***************************************************************************)
AdvanceClock ==
    /\ now < StartTime + ClockStep * MaxClockSteps
    /\ ~(TickDue /\ \E t \in Tickers : tick[t].pc = "idle")
    /\ now' = now + ClockStep
    /\ UNCHANGED <<stratVars, regVars, svcVars, auxVars, historicalData, stopped, dlmmInstances, poolCache, timerOn, lastFire, call, tick,
                   adder, everAdded, lastCall>>

(***************************************************************************)
(* getPoolData(poolAddress)                                                *)
(***************************************************************************)
\* the call up to its first await: a valid cached snapshot is returned, an
\* untracked address yields null, otherwise updatePoolData starts
GetPoolDataStart(c, a) ==
    /\ call[c].pc = "idle"
    /\ LET cached == poolCache[a]
           base == [op |-> "getPoolData", addr |-> a, before |-> cached,
                    solo |-> ~Busy,
                    fresh |-> Fresh(a), tracked |-> a \in Tracked]
       IN  IF cached # NoSnap /\ isCacheValid(cached.lastUpdated)
           THEN /\ lastCall' = base @@ [outcome |-> "snapshot", snap |-> cached,
                                         refresh |-> "none"]
                /\ call' = Disturb(call)
           ELSE IF ~hasDlmm(a)
           THEN /\ lastCall' = base @@ [outcome |-> "null", snap |-> NoSnap,
                                         refresh |-> "none"]
                /\ call' = Disturb(call)
           ELSE /\ call' = [Disturb(call) EXCEPT
                               ![c] = [pc |-> "updating", addr |-> a,
                                       solo |-> ~Busy, fresh |-> Fresh(a),
                                       idx |-> 0]]
                /\ UNCHANGED lastCall
    /\ UNCHANGED <<stratVars, regVars, svcVars, auxVars, historicalData, stopped, now, dlmmInstances, poolCache, timerOn, lastFire, tick,
                   adder, everAdded>>

\* updatePoolData completes: poolCache.set, then getPoolData returns
\* poolCache.get(poolAddress) || null
GetPoolDataRefreshed(c) ==
    /\ call[c].pc = "updating"
    /\ LET a == call[c].addr
           before == poolCache[a]
           snap == Snapshot(a, now)
       IN  /\ poolCache' = [poolCache EXCEPT ![a] = snap]
           /\ lastCall' = [op |-> "getPoolData", addr |-> a, outcome |-> "snapshot",
                           snap |-> snap, before |-> before, refresh |-> "ok",
                           solo |-> call[c].solo, fresh |-> call[c].fresh,
                           tracked |-> TRUE]
    /\ call' = [call EXCEPT ![c] = IdleProc]
    /\ UNCHANGED <<stratVars, regVars, svcVars, auxVars, historicalData, stopped, now, dlmmInstances, timerOn, lastFire, tick, adder, everAdded>>

\* updatePoolData rethrows the collaborator's error; getPoolData has no
\* handler around its await, so the call raises
GetPoolDataFailed(c) ==
    /\ call[c].pc = "updating"
    /\ LET a == call[c].addr
           before == poolCache[a]
       IN  lastCall' = [op |-> "getPoolData", addr |-> a, outcome |-> "raise",
                        snap |-> NoSnap, before |-> before, refresh |-> "failed",
                        solo |-> call[c].solo, fresh |-> call[c].fresh,
                           tracked |-> TRUE]
    /\ call' = [call EXCEPT ![c] = IdleProc]
    /\ UNCHANGED <<stratVars, regVars, svcVars, auxVars, historicalData, stopped, now, dlmmInstances, poolCache, timerOn, lastFire, tick,
                   adder, everAdded>>

(***************************************************************************)
(* addPool(poolAddress)                                                    *)
(***************************************************************************)
AddResult(a, outcome, refresh) ==
    [op |-> "addPool", addr |-> a, outcome |-> outcome, snap |-> NoSnap,
     before |-> poolCache[a], refresh |-> refresh, solo |-> FALSE, fresh |-> FALSE,
     tracked |-> a \in Tracked]

\* addPool without its dlmmInstances.has test
AddPoolStartAlwaysCreates(a) ==
    /\ adder.pc = "idle"
    /\ everAdded' = everAdded \cup {a}
    /\ call' = Disturb(call)
    /\ adder' = [pc |-> "creating", addr |-> a, solo |-> FALSE, fresh |-> FALSE, idx |-> 0]
    /\ UNCHANGED <<stratVars, regVars, svcVars, auxVars, historicalData, stopped, now, dlmmInstances, poolCache, timerOn, lastFire, tick,
                   lastCall>>

\* up to the await of DLMM.create: a tracked address is a no-op with a warning
AddPoolStart(a) ==
    /\ adder.pc = "idle"
    /\ everAdded' = everAdded \cup {a}
    /\ call' = Disturb(call)
    /\ IF a \in Tracked
       THEN /\ lastCall' = AddResult(a, "ok", "none")
            /\ UNCHANGED adder
       ELSE /\ adder' = [pc |-> "creating", addr |-> a, solo |-> FALSE, fresh |-> FALSE, idx |-> 0]
            /\ UNCHANGED lastCall
    /\ UNCHANGED <<stratVars, regVars, svcVars, auxVars, historicalData, stopped, now, dlmmInstances, poolCache, timerOn, lastFire, tick>>

\* new PublicKey or DLMM.create throws: addPool rethrows
AddPoolCreateFailed ==
    /\ adder.pc = "creating"
    /\ lastCall' = AddResult(adder.addr, "raise", "none")
    /\ adder' = IdleProc
    /\ UNCHANGED <<stratVars, regVars, svcVars, auxVars, historicalData, stopped, now, dlmmInstances, poolCache, timerOn, lastFire, call, tick,
                   everAdded>>

\* DLMM.create returned: dlmmInstances.set, then updatePoolData starts
AddPoolCreated ==
    /\ adder.pc = "creating"
    /\ dlmmInstances' = MapSet(adder.addr)
    /\ adder' = [adder EXCEPT !.pc = "updating"]
    /\ UNCHANGED <<stratVars, regVars, svcVars, auxVars, historicalData, stopped, now, poolCache, timerOn, lastFire, call, tick, everAdded,
                   lastCall>>

\* the initial updatePoolData completes: poolCache.set
AddPoolRefreshed ==
    /\ adder.pc = "updating"
    /\ poolCache' = [poolCache EXCEPT ![adder.addr] = Snapshot(adder.addr, now)]
    /\ lastCall' = AddResult(adder.addr, "ok", "ok")
    /\ adder' = IdleProc
    /\ UNCHANGED <<stratVars, regVars, svcVars, auxVars, historicalData, stopped, now, dlmmInstances, timerOn, lastFire, call, tick, everAdded>>

\* the initial updatePoolData throws: addPool rethrows, the handle stays
AddPoolRefreshFailed ==
    /\ adder.pc = "updating"
    /\ lastCall' = AddResult(adder.addr, "raise", "failed")
    /\ adder' = IdleProc
    /\ UNCHANGED <<stratVars, regVars, svcVars, auxVars, historicalData, stopped, now, dlmmInstances, poolCache, timerOn, lastFire, call, tick,
                   everAdded>>

(***************************************************************************)
(* removePool(poolAddress): one uninterrupted stretch                      *)
(***************************************************************************)
\* removePool without its poolCache.delete
RemovePoolKeepsCache(a) ==
    /\ dlmmInstances' = MapDelete(a)
    /\ tick' = [t \in Tickers |->
                   IF a \in Tracked /\ tick[t].pc # "idle" /\ PosOf(a) <= tick[t].idx
                   THEN [tick[t] EXCEPT !.idx = @ - 1]
                   ELSE tick[t]]
    /\ market' = IF a \in Tracked /\ market.pc = "updating" /\ PosOf(a) <= market.idx
                  THEN [market EXCEPT !.idx = @ - 1]
                  ELSE market
    /\ call' = Disturb(call)
    /\ lastCall' = [op |-> "removePool", addr |-> a, outcome |-> "ok",
                    snap |-> NoSnap, before |-> poolCache[a], refresh |-> "none",
                    solo |-> FALSE, fresh |-> FALSE, tracked |-> a \in Tracked]
    /\ UNCHANGED <<stratVars, regVars, positions, order, auxVars, historicalData, stopped, now, poolCache, timerOn, lastFire, adder, everAdded>>

\* an iterator over dlmmInstances that has passed the deleted entry keeps
\* its place among the remaining ones
RemovePool(a) ==
    /\ dlmmInstances' = MapDelete(a)
    /\ poolCache' = [poolCache EXCEPT ![a] = NoSnap]
    /\ tick' = [t \in Tickers |->
                   IF a \in Tracked /\ tick[t].pc # "idle" /\ PosOf(a) <= tick[t].idx
                   THEN [tick[t] EXCEPT !.idx = @ - 1]
                   ELSE tick[t]]
    /\ market' = IF a \in Tracked /\ market.pc = "updating" /\ PosOf(a) <= market.idx
                  THEN [market EXCEPT !.idx = @ - 1]
                  ELSE market
    /\ call' = Disturb(call)
    /\ lastCall' = [op |-> "removePool", addr |-> a, outcome |-> "ok",
                    snap |-> NoSnap, before |-> poolCache[a], refresh |-> "none",
                    solo |-> FALSE, fresh |-> FALSE, tracked |-> a \in Tracked]
    /\ UNCHANGED <<stratVars, regVars, positions, order, auxVars, historicalData, stopped, now, timerOn, lastFire, adder, everAdded>>

(***************************************************************************)
(* initialize() and the periodic callback of startPeriodicUpdates()        *)
(***************************************************************************)
\* initialize() with config.pools.targetPools empty: installs the timer
Initialize ==
    /\ ~timerOn
    /\ timerOn' = TRUE
    /\ lastFire' = now
    /\ UNCHANGED <<stratVars, regVars, svcVars, auxVars, historicalData, stopped, now, dlmmInstances, poolCache, call, tick, adder, everAdded,
                   lastCall>>

\* the callback starts: the loop takes the first tracked pool and starts its
\* updatePoolData; with nothing tracked the callback is over at once
TickFire(t) ==
    /\ TickDue
    /\ tick[t].pc = "idle"
    /\ lastFire' = lastFire + updateInterval
    /\ tick' = [tick EXCEPT ![t] =
                   IF Len(dlmmInstances) = 0 THEN IdleProc
                   ELSE [pc |-> "updating", addr |-> dlmmInstances[1],
                         solo |-> FALSE, fresh |-> FALSE, idx |-> 1]]
    /\ call' = Disturb(call)
    /\ UNCHANGED <<stratVars, regVars, svcVars, auxVars, historicalData, stopped, now, dlmmInstances, poolCache, timerOn, adder, everAdded,
                   lastCall>>

\* one updatePoolData of the loop completes: poolCache.set, then the loop
\* goes on with the next entry of the map, or ends
TickRefreshed(t) ==
    /\ tick[t].pc = "updating"
    /\ poolCache' = [poolCache EXCEPT ![tick[t].addr] = Snapshot(tick[t].addr, now)]
    /\ tick' = [tick EXCEPT ![t] =
                   IF tick[t].idx < Len(dlmmInstances)
                   THEN [pc |-> "updating", addr |-> dlmmInstances[tick[t].idx + 1],
                         solo |-> FALSE, fresh |-> FALSE,
                         idx |-> tick[t].idx + 1]
                   ELSE IdleProc]
    /\ UNCHANGED <<stratVars, regVars, svcVars, auxVars, historicalData, stopped, now, dlmmInstances, timerOn, lastFire, call, adder, everAdded,
                   lastCall>>

\* a failing updatePoolData that has already written part of the entry
TickRefreshFailedPartialWrite(t) ==
    /\ tick[t].pc = "updating"
    /\ poolCache' = [poolCache EXCEPT ![tick[t].addr] = [@ EXCEPT !.lastUpdated = now]]
    /\ tick' = [tick EXCEPT ![t] = IdleProc]
    /\ UNCHANGED <<stratVars, regVars, svcVars, auxVars, historicalData, stopped, now, dlmmInstances,
                   timerOn, lastFire, call, adder, everAdded, lastCall>>

\* one updatePoolData of the loop throws: the callback's catch is outside
\* the loop, so the run ends there
TickRefreshFailed(t) ==
    /\ tick[t].pc = "updating"
    /\ tick' = [tick EXCEPT ![t] = IdleProc]
    /\ UNCHANGED <<stratVars, regVars, svcVars, auxVars, historicalData, stopped, now, dlmmInstances, poolCache, timerOn, lastFire, call, adder,
                   everAdded, lastCall>>

(***************************************************************************)
(* cleanup() and close(): neither holds the interval's handle               *)
(***************************************************************************)
\* cleanup(), the call MeteoraDLMMBot.shutdown makes: it cleans up and closes
\* the historical service and touches neither the timer nor the two maps
Cleanup ==
    /\ stopped = "no"
    /\ stopped' = "cleanup"
    /\ UNCHANGED <<stratVars, regVars, svcVars, auxVars, historicalData, now, dlmmInstances, poolCache,
                   timerOn, lastFire, call, tick, adder, everAdded, lastCall>>

\* close(): both maps are cleared, the timer stays installed; an iterator
\* over the cleared map starts again on what is added afterwards
Close ==
    /\ stopped = "no"
    /\ stopped' = "close"
    /\ dlmmInstances' = <<>>
    /\ poolCache' = [a \in Addrs |-> NoSnap]
    /\ tick' = [t \in Tickers |-> [tick[t] EXCEPT !.idx = 0]]
    /\ market' = [market EXCEPT !.idx = 0]
    /\ call' = Disturb(call)
    /\ UNCHANGED <<stratVars, regVars, positions, order, auxVars, historicalData, now, timerOn, lastFire, adder,
                   everAdded, lastCall>>

(***************************************************************************)
(* getMarketData(): getAllPoolsData(), then analyzeMarketTrends() and      *)
(* identifyTradingOpportunities(), each of which walks the tracked map     *)
(* with getAllPoolsData() again                                            *)
(***************************************************************************)
\* pools.push(poolData) of the walk whose result getMarketData returns
PushPool(m, snap) == IF m.phase = 1 THEN [m EXCEPT !.pools = Append(@, snap)] ELSE m

\* the for-loop of getAllPoolsData from map position i on, up to its next
\* await of a refresh: an entry with a valid cached snapshot is pushed at
\* once, an entry without one starts its updatePoolData; at the end of the
\* map the next of the three walks starts, and after the third
\* getMarketData returns
RECURSIVE getAllPoolsData(_, _, _)
getAllPoolsData(m, cache, i) ==
    IF i >= Len(dlmmInstances)
    THEN IF m.phase = 1
         THEN getAllPoolsData([m EXCEPT !.phase = 2, !.tracked = Tracked], cache, 0)
         ELSE IF m.phase = 2
         THEN getAllPoolsData([m EXCEPT !.phase = 3], cache, 0)
         ELSE [m EXCEPT !.pc = "returned", !.addr = "", !.idx = 0]
    ELSE LET a == dlmmInstances[i + 1]
             cached == cache[a]
         IN  IF cached # NoSnap /\ isCacheValid(cached.lastUpdated)
             THEN getAllPoolsData(PushPool(m, cached), cache, i + 1)
             ELSE [m EXCEPT !.pc = "updating", !.addr = a, !.idx = i + 1]

\* getMarketData() up to its first await of a refresh
GetMarketDataStart ==
    /\ market.pc # "updating"
    /\ market' = getAllPoolsData([IdleMarket EXCEPT !.phase = 1], poolCache, 0)
    /\ call' = Disturb(call)
    /\ UNCHANGED <<stratVars, regVars, auxVars, positions, order, historicalData, stopped, now,
                   dlmmInstances, poolCache, timerOn, lastFire, tick, adder, everAdded, lastCall>>

\* the awaited updatePoolData completes: poolCache.set, getPoolData returns
\* poolCache.get(poolAddress), and the walk goes on
GetMarketDataRefreshed ==
    /\ market.pc = "updating"
    /\ LET snap == Snapshot(market.addr, now)
           cache == [poolCache EXCEPT ![market.addr] = snap]
           next == getAllPoolsData(PushPool(market, snap), cache, market.idx)
       IN  /\ Len(next.pools) <= MaxPools
           /\ poolCache' = cache
           /\ market' = next
    /\ UNCHANGED <<stratVars, regVars, auxVars, positions, order, historicalData, stopped, now,
                   dlmmInstances, timerOn, lastFire, call, tick, adder, everAdded, lastCall>>

\* getAllPoolsData without the try/catch around its getPoolData
GetMarketDataRefreshFailedUncaught ==
    /\ market.pc = "updating"
    /\ market' = IF market.phase = 1
                 THEN [market EXCEPT !.pc = "raised", !.addr = "", !.idx = 0,
                                     !.failed = @ \cup {market.addr}]
                 ELSE getAllPoolsData(market, poolCache, Len(dlmmInstances))
    /\ UNCHANGED <<stratVars, regVars, auxVars, positions, order, historicalData, stopped, now,
                   dlmmInstances, poolCache, timerOn, lastFire, call, tick, adder, everAdded,
                   lastCall>>

\* the awaited updatePoolData throws: getPoolData raises, the catch inside
\* the loop of getAllPoolsData logs it, and the walk goes on
GetMarketDataRefreshFailed ==
    /\ market.pc = "updating"
    /\ LET failed == IF market.phase = 1
                     THEN [market EXCEPT !.failed = @ \cup {market.addr}]
                     ELSE market
           next == getAllPoolsData(failed, poolCache, market.idx)
       IN  /\ Len(next.pools) <= MaxPools
           /\ market' = next
    /\ UNCHANGED <<stratVars, regVars, auxVars, positions, order, historicalData, stopped, now,
                   dlmmInstances, poolCache, timerOn, lastFire, call, tick, adder, everAdded,
                   lastCall>>

(***************************************************************************)
(* BaseStrategy and BalancedLiquidityStrategy                              *)
(***************************************************************************)
\* a JavaScript number or object in a condition: undefined and 0 are falsy
Truthy(opt) == opt # Undefined /\ opt[1] # 0

\* validateStrategySpecificConfig: TRUE when it does not throw
validateStrategySpecificConfig(config) ==
    /\ ~(Truthy(config.targetRange) /\ config.targetRange[1] < 1)
    /\ ~(Truthy(config.rebalanceThreshold)
         /\ (config.rebalanceThreshold[1] < 1 \/ config.rebalanceThreshold[1] > 100))
    /\ ~(/\ config.minLiquidityAmount # Undefined
         /\ config.maxLiquidityAmount # Undefined
         /\ config.minLiquidityAmount[1] > config.maxLiquidityAmount[1])

\* validateConfig without its maxPositionSize test
validateConfigNoSizeCheck(config) ==
    /\ config.poolAddress # ""
    /\ config.riskParameters # Undefined
    /\ validateStrategySpecificConfig(config)

\* validateConfig: TRUE when it does not throw
validateConfig(config) ==
    /\ config.poolAddress # ""
    /\ config.maxPositionSize # Undefined
    /\ ~(config.maxPositionSize[1] <= 0)
    /\ config.riskParameters # Undefined
    /\ validateStrategySpecificConfig(config)

\* onInitialize: the defaults, overridden by the keys this.config holds
onInitialize(config) ==
    [targetRange |-> IF config.targetRange = Undefined THEN 10
                     ELSE config.targetRange[1],
     rebalanceThreshold |-> IF config.rebalanceThreshold = Undefined THEN 5
                            ELSE config.rebalanceThreshold[1],
     minLiquidityAmount |-> IF config.minLiquidityAmount = Undefined THEN 100
                            ELSE config.minLiquidityAmount[1],
     maxLiquidityAmount |-> IF config.maxLiquidityAmount = Undefined THEN 10000
                            ELSE config.maxLiquidityAmount[1],
     feeCollectionThreshold |-> 10]

\* isStrategySpecificActionSafe of BalancedLiquidityStrategy
isStrategySpecificActionSafeAnyVolatility(action, marketData) ==
    LET poolData == marketData[action.poolAddress]
    IN  /\ poolData.present
        /\ ~(/\ action.type = "rebalance"
             /\ now - strategy.lastRebalanceTime < minRebalanceInterval)
isStrategySpecificActionSafe(action, marketData) ==
    LET poolData == marketData[action.poolAddress]
    IN  /\ poolData.present
        /\ ~(/\ action.type = "create_position"
             /\ poolData.volatility # Undefined
             /\ poolData.volatility[1] > createVolatilityLimit)
        /\ ~(/\ action.type = "rebalance"
             /\ now - strategy.lastRebalanceTime < minRebalanceInterval)

\* isActionSafe: each check in the source's order; an exception thrown by a
\* check (a comparison against a missing maxPositionSize, a read through
\* missing riskParameters) is caught and makes the action unsafe
isActionSafeNoSizeCheck(action, marketData) ==
    LET config == strategy.config[1]
        poolData == marketData[action.poolAddress]
    IN  /\ poolData.present => config.riskParameters # Undefined
        /\ ~(/\ poolData.present
             /\ poolData.volatility # Undefined
             /\ poolData.volatility[1] > config.riskParameters[1].volatilityThreshold)
        /\ Truthy(action.slippage) => config.riskParameters # Undefined
        /\ ~(/\ Truthy(action.slippage)
             /\ action.slippage[1] > config.riskParameters[1].maxSlippage)
        /\ isStrategySpecificActionSafe(action, marketData)

isActionSafeNoVolatilityCheck(action, marketData) ==
    LET config == strategy.config[1]
        poolData == marketData[action.poolAddress]
    IN  /\ action.liquidityAmount # Undefined => config.maxPositionSize # Undefined
        /\ ~(/\ action.liquidityAmount # Undefined
             /\ action.liquidityAmount[1] > config.maxPositionSize[1])
        /\ Truthy(action.slippage) => config.riskParameters # Undefined
        /\ ~(/\ Truthy(action.slippage)
             /\ action.slippage[1] > config.riskParameters[1].maxSlippage)
        /\ isStrategySpecificActionSafe(action, marketData)

isActionSafeNoSlippageCheck(action, marketData) ==
    LET config == strategy.config[1]
        poolData == marketData[action.poolAddress]
    IN  /\ action.liquidityAmount # Undefined => config.maxPositionSize # Undefined
        /\ ~(/\ action.liquidityAmount # Undefined
             /\ action.liquidityAmount[1] > config.maxPositionSize[1])
        /\ poolData.present => config.riskParameters # Undefined
        /\ ~(/\ poolData.present
             /\ poolData.volatility # Undefined
             /\ poolData.volatility[1] > config.riskParameters[1].volatilityThreshold)
        /\ isStrategySpecificActionSafe(action, marketData)

isActionSafe(action, marketData) ==
    LET config == strategy.config[1]
        poolData == marketData[action.poolAddress]
    IN  /\ action.liquidityAmount # Undefined => config.maxPositionSize # Undefined
        /\ ~(/\ action.liquidityAmount # Undefined
             /\ action.liquidityAmount[1] > config.maxPositionSize[1])
        /\ poolData.present => config.riskParameters # Undefined
        /\ ~(/\ poolData.present
             /\ poolData.volatility # Undefined
             /\ poolData.volatility[1] > config.riskParameters[1].volatilityThreshold)
        /\ Truthy(action.slippage) => config.riskParameters # Undefined
        /\ ~(/\ Truthy(action.slippage)
             /\ action.slippage[1] > config.riskParameters[1].maxSlippage)
        /\ isStrategySpecificActionSafe(action, marketData)

\* applyRiskFilters: the safe actions, in the candidates' order
applyRiskFiltersKeepsAll(actions, marketData) == actions
applyRiskFilters(actions, marketData) ==
    SelectSeq(actions, LAMBDA action : isActionSafe(action, marketData))

\* Array.prototype.sort with the comparator b.priority - a.priority: stable,
\* an element goes behind every element of at least its priority
RECURSIVE Insert(_, _)
Insert(sorted, x) ==
    IF sorted = <<>> THEN <<x>>
    ELSE IF Head(sorted).priority >= x.priority
         THEN <<Head(sorted)>> \o Insert(Tail(sorted), x)
         ELSE <<x>> \o sorted

RECURSIVE SortFrom(_, _)
SortFrom(sorted, rest) ==
    IF rest = <<>> THEN sorted ELSE SortFrom(Insert(sorted, Head(rest)), Tail(rest))

sortByPriorityUnsorted(actions) == actions
sortByPriority(actions) == SortFrom(<<>>, actions)

\* the strategy is used by one caller, which takes each result before it
\* calls again
StrategyIdle == lastRun = NoRun

RunOf(op, outcome) ==
    [op |-> op, outcome |-> outcome, wasInitialized |-> strategy.isInitialized,
     phase |-> strategy.phase, config |-> strategy.config]

\* initialize(config): this.config is assigned before the validation
StrategyInitialize(config) ==
    /\ StrategyIdle
    /\ IF validateConfig(config)
       THEN /\ strategy' = [strategy EXCEPT !.config = Some(config),
                                            !.balancedConfig = Some(onInitialize(config)),
                                            !.isInitialized = TRUE,
                                            !.phase = "initialized"]
            /\ lastRun' = RunOf("initialize", "ok") @@ [arg |-> config]
       ELSE /\ strategy' = [strategy EXCEPT !.config = Some(config)]
            /\ lastRun' = RunOf("initialize", "raise") @@ [arg |-> config]
    /\ UNCHANGED <<cacheVars, regVars, svcVars, auxVars, seen>>

\* marketData.pools.find(p => p.address === this.config.poolAddress) finds
\* an entry
PoolFound(config, marketData) ==
    config.poolAddress \in Addrs /\ marketData[config.poolAddress].present

\* onAnalyze with the units' errors reaching its own catch, which returns
\* what was gathered before the error
onAnalyzeUnguardedUnits(runs, marketData) ==
    IF ~PoolFound(strategy.config[1], marketData) THEN <<>>
    ELSE IF runs["fee"].threw THEN <<>>
    ELSE IF runs["rebalance"].threw THEN runs["fee"].actions
    ELSE IF runs["position"].threw THEN runs["fee"].actions \o runs["rebalance"].actions
    ELSE runs["fee"].actions \o runs["rebalance"].actions \o runs["position"].actions

\* onAnalyze: nothing without the pool's entry; otherwise what the three
\* units return, each unit catching its own errors and returning what it
\* had pushed
onAnalyze(runs, marketData) ==
    IF ~PoolFound(strategy.config[1], marketData) THEN <<>>
    ELSE runs["fee"].actions \o runs["rebalance"].actions \o runs["position"].actions

\* analyze(marketData), the units of onAnalyze running as in runs
StrategyAnalyze(runs, marketData) ==
    /\ StrategyIdle
    /\ IF ~strategy.isInitialized
       THEN lastRun' = RunOf("analyze", "NotInitializedError")
       ELSE LET candidates == onAnalyze(runs, marketData)
            IN  lastRun' = RunOf("analyze", "ok") @@
                    [runs |-> runs, candidates |-> candidates,
                     marketData |-> marketData,
                     actions |-> sortByPriority(applyRiskFilters(candidates, marketData))]
    /\ UNCHANGED <<cacheVars, regVars, svcVars, auxVars, strategy, seen>>

\* getErrorMessage(error)
getErrorMessageUnknown(error) == "Unknown error occurred"
getErrorMessage(error) ==
    IF error.kind = "Error" THEN error.message
    ELSE IF error.kind = "string" THEN error.message
    ELSE "Unknown error occurred"

\* execute(action): onExecute stamps a rebalance first; what it returns is
\* returned, what it throws is caught and returned as a failed result
StrategyExecuteNoStamp(action, run) ==
    /\ StrategyIdle
    /\ IF ~strategy.isInitialized
       THEN /\ lastRun' = RunOf("execute", "NotInitializedError")
            /\ UNCHANGED <<strategy, seen>>
       ELSE /\ lastRun' = RunOf("execute", "ok") @@
                   [action |-> action, run |-> run,
                    success |-> IF run.kind = "returns" THEN run.result.success
                                ELSE FALSE,
                    error |-> IF run.kind = "returns" THEN run.result.error
                              ELSE Some(getErrorMessage(run.thrown))]
            /\ UNCHANGED strategy
            /\ seen' = IF action.type = "rebalance"
                       THEN [seen EXCEPT !.rebalanced = Some(now), !.cleanedUp = FALSE]
                       ELSE seen
    /\ UNCHANGED <<cacheVars, regVars, svcVars, auxVars>>
StrategyExecute(action, run) ==
    /\ StrategyIdle
    /\ IF ~strategy.isInitialized
       THEN /\ lastRun' = RunOf("execute", "NotInitializedError")
            /\ UNCHANGED <<strategy, seen>>
       ELSE /\ lastRun' = RunOf("execute", "ok") @@
                   [action |-> action, run |-> run,
                    success |-> IF run.kind = "returns" THEN run.result.success
                                ELSE FALSE,
                    error |-> IF run.kind = "returns" THEN run.result.error
                              ELSE Some(getErrorMessage(run.thrown))]
            /\ strategy' = [strategy EXCEPT !.lastRebalanceTime =
                               IF action.type = "rebalance" THEN now ELSE @]
            /\ seen' = IF action.type = "rebalance"
                       THEN [seen EXCEPT !.rebalanced = Some(now), !.cleanedUp = FALSE]
                       ELSE seen
    /\ UNCHANGED <<cacheVars, regVars, svcVars, auxVars>>

StrategyCleanupKeepsFlag ==
    /\ lastRun = NoRun
    /\ IF strategy.config = Undefined
       THEN /\ lastRun' = [op |-> "cleanup", outcome |-> "raise",
                           wasInitialized |-> strategy.isInitialized,
                           phase |-> strategy.phase, config |-> strategy.config]
            /\ UNCHANGED <<strategy, seen>>
       ELSE /\ lastRun' = [op |-> "cleanup", outcome |-> "ok",
                           wasInitialized |-> strategy.isInitialized,
                           phase |-> strategy.phase, config |-> strategy.config]
            /\ strategy' = [strategy EXCEPT !.lastActiveBinId = 0,
                                            !.lastRebalanceTime = 0,
                                            !.phase = "cleaned-up"]
            /\ seen' = [seen EXCEPT !.observed = Undefined, !.cleanedUp = TRUE]
    /\ UNCHANGED <<cacheVars, regVars, svcVars, auxVars>>

\* cleanup(): onCleanup reads this.config.poolAddress, which throws while
\* this.config is undefined; otherwise it resets the bookkeeping
StrategyCleanup ==
    /\ StrategyIdle
    /\ IF strategy.config = Undefined
       THEN /\ lastRun' = RunOf("cleanup", "raise")
            /\ UNCHANGED <<strategy, seen>>
       ELSE /\ lastRun' = RunOf("cleanup", "ok")
            /\ strategy' = [strategy EXCEPT !.lastActiveBinId = 0,
                                            !.lastRebalanceTime = 0,
                                            !.isInitialized = FALSE,
                                            !.phase = "cleaned-up"]
            /\ seen' = [seen EXCEPT !.observed = Undefined, !.cleanedUp = TRUE]
    /\ UNCHANGED <<cacheVars, regVars, svcVars, auxVars>>

\* the caller takes the result
StrategyReturn ==
    /\ ~StrategyIdle
    /\ lastRun' = NoRun
    /\ UNCHANGED <<cacheVars, regVars, svcVars, auxVars, strategy, seen>>

AdvanceStrategyClock ==
    /\ StrategyIdle
    /\ now < StartTime + StrategyClockStep * MaxStrategySteps
    /\ now' = now + StrategyClockStep
    /\ UNCHANGED <<dlmmInstances, poolCache, timerOn, lastFire, call, tick,
                   adder, everAdded, lastCall, historicalData, stopped,
                   stratVars, regVars, svcVars, auxVars>>

(***************************************************************************)
(* StrategyRegistry                                                        *)
(***************************************************************************)
\* this.strategies.has(name)
registryHas(name) == \E i \in DOMAIN strategies : strategies[i].name = name

\* a map that adds an entry on every set
registrySetAppends(added) == Append(strategies, added)
\* this.strategies.set(strategy.name, strategy): an existing key keeps its
\* place and takes the new value, a new key goes last
registrySet(added) ==
    IF registryHas(added.name)
    THEN [i \in DOMAIN strategies |->
             IF strategies[i].name = added.name THEN added ELSE strategies[i]]
    ELSE Append(strategies, added)

\* get(name): the entry, or the error 'Strategy not found: <name>'
registryGet(name) ==
    IF registryHas(name)
    THEN [outcome |-> "ok",
          strategy |-> strategies[CHOOSE i \in DOMAIN strategies :
                                     /\ strategies[i].name = name
                                     /\ \A j \in 1..(i - 1) : strategies[j].name # name],
          message |-> <<>>]
    ELSE [outcome |-> "raise", strategy |-> NoStrategy,
          message |-> <<"Strategy not found: ", name>>]

\* list(): Array.from(this.strategies.keys())
registryList == [i \in DOMAIN strategies |-> strategies[i].name]

\* count(): this.strategies.size
registryCount == Len(strategies)

\* register(strategy)
Register(added) ==
    /\ strategies' = registrySet(added)
    /\ registered' = [registered EXCEPT ![added.name] = added]
    /\ lastLookup' = [op |-> "register", strategy |-> added,
                      replaced |-> registryHas(added.name)]
    /\ UNCHANGED <<cacheVars, stratVars, auxVars, svcVars>>

\* unregister(name): Map.delete, whose result is returned
Unregister(name) ==
    /\ strategies' = SelectSeq(strategies, LAMBDA x : x.name # name)
    /\ registered' = [registered EXCEPT ![name] = NoStrategy]
    /\ lastLookup' = [op |-> "unregister", name |-> name, removed |-> registryHas(name)]
    /\ UNCHANGED <<cacheVars, stratVars, auxVars, svcVars>>

\* clear()
Clear ==
    /\ strategies' = <<>>
    /\ registered' = [name \in Names |-> NoStrategy]
    /\ lastLookup' = [op |-> "clear"]
    /\ UNCHANGED <<cacheVars, stratVars, auxVars, svcVars>>

\* get(name)
Get(name) ==
    /\ lastLookup' = [op |-> "get", name |-> name, result |-> registryGet(name)]
    /\ UNCHANGED <<cacheVars, stratVars, auxVars, svcVars, strategies, registered>>

\* list() and count()
List ==
    /\ lastLookup' = [op |-> "list", names |-> registryList, count |-> registryCount]
    /\ UNCHANGED <<cacheVars, stratVars, auxVars, svcVars, strategies, registered>>

\* the handlers of addPool and removePool
(***************************************************************************)
(* Numbers.  A Big is an exact decimal; only a quotient of Bigs is         *)
(* rounded, to a fixed number of decimal places.  A JavaScript number      *)
(* holds a value only to its significant digits: converting a Big, or the  *)
(* result of an SQLite aggregate, to a number rounds it, and so does every *)
(* operation on numbers.  Where a Big or a number has a fraction it is     *)
(* counted in units of 1/One.                                              *)
(***************************************************************************)
Abs(x) == IF x < 0 THEN 0 - x ELSE x

RECURSIVE Pow10(_)
Pow10(n) == IF n = 0 THEN 1 ELSE 10 * Pow10(n - 1)

\* the number of decimal digits of a positive integer
RECURSIVE NumDigits(_)
NumDigits(x) == IF x < 10 THEN 1 ELSE 1 + NumDigits(x \div 10)

\* x rounded to nearest at the significant digits a number keeps, ties to even
ToNumber(x) ==
    IF x = 0 \/ NumDigits(Abs(x)) <= SignificantDigits THEN x
    ELSE LET unit == Pow10(NumDigits(Abs(x)) - SignificantDigits)
             q == Abs(x) \div unit
             r == Abs(x) % unit
             up == 2 * r > unit \/ (2 * r = unit /\ q % 2 = 1)
             rounded == (IF up THEN q + 1 ELSE q) * unit
         IN IF x < 0 THEN 0 - rounded ELSE rounded

\* the unit Bigs and numbers with a fraction are counted in
One == Pow10(DecimalPlaces)

\* long division of r by y, r < y: k more digits, then rounding half up
RECURSIVE DivDigits(_, _, _, _)
DivDigits(acc, r, y, k) ==
    IF k = 0 THEN acc + (IF 2 * r >= y THEN 1 ELSE 0)
    ELSE DivDigits(10 * acc + (10 * r) \div y, (10 * r) % y, y, k - 1)

\* x.div(y), y # 0, of two Bigs counted in the same unit: the quotient in
\* units of 1/One, rounded half up (away from zero)
BigDiv(x, y) ==
    LET q == DivDigits(Abs(x) \div Abs(y), Abs(x) % Abs(y), Abs(y), DecimalPlaces)
    IN IF (x < 0) = (y < 0) THEN q ELSE 0 - q

\* a number without its trailing zeros, and how many they are
RECURSIVE Mantissa(_)
Mantissa(x) == IF x # 0 /\ x % 10 = 0 THEN Mantissa(x \div 10) ELSE x
RECURSIVE TrailingZeros(_)
TrailingZeros(x) == IF x # 0 /\ x % 10 = 0 THEN 1 + TrailingZeros(x \div 10) ELSE 0

\* a + b, a * b and a / b (b # 0) of two numbers
NumAdd(a, b) == ToNumber(a + b)
NumMul(a, b) ==
    LET p == ToNumber(Mantissa(Abs(a)) * Mantissa(Abs(b)))
        e == TrailingZeros(Abs(a)) + TrailingZeros(Abs(b)) - DecimalPlaces
        q == IF e >= 0 THEN p * Pow10(e)
             ELSE DivDigits(p \div Pow10(0 - e), p % Pow10(0 - e), Pow10(0 - e), 0)
    IN IF (a < 0) = (b < 0) THEN q ELSE 0 - q
NumDiv(a, b) == ToNumber(BigDiv(a, b))

\* Math.pow(base, n) for a whole n
RECURSIVE NumPowTo(_, _)
NumPowTo(base, n) ==
    IF n = 0 THEN One
    ELSE IF n % 2 = 1 THEN NumMul(NumPowTo(base, n - 1), base)
    ELSE LET half == NumPowTo(base, n \div 2) IN NumMul(half, half)
NumPow(base, n) == IF n >= 0 THEN NumPowTo(base, n) ELSE NumDiv(One, NumPowTo(base, 0 - n))

\* the largest integer whose square is at most n
RECURSIVE ISqrtIn(_, _, _)
ISqrtIn(n, lo, hi) ==
    IF lo = hi THEN lo
    ELSE LET mid == (lo + hi + 1) \div 2
         IN IF mid * mid <= n THEN ISqrtIn(n, mid, hi) ELSE ISqrtIn(n, lo, mid - 1)
ISqrt(n) == ISqrtIn(n, 0, IF n < 46340 THEN n ELSE 46340)

\* Math.sqrt(v), v >= 0: the number nearest to the square root
NumSqrt(v) ==
    LET n == v * One
        s == ISqrt(n)
        unit == IF s > 0 /\ NumDigits(s) > SignificantDigits
                THEN Pow10(NumDigits(s) - SignificantDigits) ELSE 1
        lo == (s \div unit) * unit
        hi == lo + unit
    IN IF lo * lo = n THEN lo
       ELSE IF 4 * n > (lo + hi) * (lo + hi) THEN hi
       ELSE IF 4 * n < (lo + hi) * (lo + hi) THEN lo
       ELSE IF (lo \div unit) % 2 = 0 THEN lo ELSE hi

(***************************************************************************)
(* HistoricalDataService.  historicalData[a] holds the rows of             *)
(* historical_data_points whose pool_address is a, in rowid order.  The    *)
(* TEXT columns price, volume, fees, liquidity_x and liquidity_y hold the  *)
(* decimal text of a Big and are kept as the number the text denotes.  The *)
(* amounts are whole numbers: CAST(... AS DECIMAL) makes INTEGERs of them, *)
(* SUM adds INTEGERs exactly, and the total reaches JavaScript as a        *)
(* number, from which new Big() takes its digits.                          *)
(***************************************************************************)
TimeFrames == {"hourly", "daily"}

\* the timestamps points are recorded with: the far side and the near side of
\* the two horizons as the clock starts, and the start itself
Stamps == <<StartHour - retentionPeriod - 1, StartHour - retentionPeriod,
            StartHour - oneDay - 1, StartHour - oneDay, StartHour>>

\* the HistoricalDataPoint values recorded: one per timestamp, no two with
\* the same price, volume or fees
DataPoints ==
    {[timestamp |-> Stamps[i], price |-> 100 + i, volume |-> 1000001 * i, fees |-> 3 * i,
      liquidityX |-> 5000 + 100 * i, liquidityY |-> 5000 - 100 * i, binId |-> i] :
        i \in DOMAIN Stamps}

\* the row INSERT writes
RowOf(dataPoint, timeframe) ==
    [timestamp |-> dataPoint.timestamp, price |-> dataPoint.price,
     volume |-> dataPoint.volume, fees |-> dataPoint.fees,
     liquidity_x |-> dataPoint.liquidityX, liquidity_y |-> dataPoint.liquidityY,
     bin_id |-> dataPoint.binId, timeframe |-> timeframe]

\* the HistoricalDataPoint rows.map builds from a row
PointOf(row) ==
    [timestamp |-> row.timestamp, price |-> row.price, volume |-> row.volume,
     fees |-> row.fees, liquidityX |-> row.liquidity_x,
     liquidityY |-> row.liquidity_y, binId |-> row.bin_id]

RowCount == Len(historicalData["p1"]) + Len(historicalData["p2"])

\* ORDER BY timestamp ASC: rows of equal timestamp stay in rowid order
InsertByTimestamp(sorted, row) ==
    LET after == {i \in 1..Len(sorted) : sorted[i].timestamp > row.timestamp}
        at == IF after = {} THEN Len(sorted) + 1
              ELSE CHOOSE i \in after : \A j \in after : i <= j
    IN SubSeq(sorted, 1, at - 1) \o <<row>> \o SubSeq(sorted, at, Len(sorted))

RECURSIVE OrderByTimestampFrom(_, _)
OrderByTimestampFrom(sorted, rest) ==
    IF rest = <<>> THEN sorted
    ELSE OrderByTimestampFrom(InsertByTimestamp(sorted, Head(rest)), Tail(rest))

OrderByTimestamp(rows) == OrderByTimestampFrom(<<>>, rows)

\* SUM(column): NULL over no rows
RECURSIVE SqlSum(_, _)
SqlSum(rows, column) ==
    IF rows = <<>> THEN Undefined
    ELSE LET rest == SqlSum(Tail(rows), column)
         IN Some(Head(rows)[column] + (IF rest = Undefined THEN 0 ELSE rest[1]))

\* COALESCE(value, default)
Coalesce(value, default) == IF value = Undefined THEN default ELSE value[1]

\* addDataPoint(poolAddress, dataPoint, timeframe): the INSERT ran
AddDataPoint(a, dataPoint, timeframe) ==
    /\ RowCount < MaxRows
    /\ historicalData' = [historicalData EXCEPT ![a] = Append(@, RowOf(dataPoint, timeframe))]
    /\ lastQuery' = [op |-> "addDataPoint", outcome |-> "ok", addr |-> a,
                     dataPoint |-> dataPoint, timeframe |-> timeframe,
                     rows |-> RowCount]
    /\ UNCHANGED <<stratVars, regVars, svcVars, hour, lastMetric, stopped, now, dlmmInstances,
                   poolCache, timerOn, lastFire, call, tick, adder, everAdded, lastCall>>

\* addDataPoint: the statement failed, the error is logged and thrown again
AddDataPointFailed(a) ==
    /\ lastQuery' = [op |-> "addDataPoint", outcome |-> "raised", addr |-> a,
                     rows |-> RowCount]
    /\ UNCHANGED <<cacheVars, stratVars, regVars, svcVars, hour, lastMetric>>

\* getHistoricalData(poolAddress, timeframe, startTime, endTime)
getHistoricalData(a, timeframe, startTime, endTime) ==
    LET rows == OrderByTimestamp(SelectSeq(historicalData[a],
                    LAMBDA row : /\ row.timeframe = timeframe
                                 /\ row.timestamp >= startTime
                                 /\ row.timestamp <= endTime))
    IN [i \in DOMAIN rows |-> PointOf(rows[i])]

GetHistoricalData(a, timeframe, startTime, endTime) ==
    /\ lastQuery' = [op |-> "getHistoricalData", outcome |-> "ok", addr |-> a,
                     timeframe |-> timeframe, startTime |-> startTime,
                     endTime |-> endTime, at |-> hour,
                     result |-> getHistoricalData(a, timeframe, startTime, endTime)]
    /\ UNCHANGED <<cacheVars, stratVars, regVars, svcVars, hour, lastMetric>>

\* getLast24HourData(poolAddress)
getLast24HourData(a) ==
    LET oneDayAgo == hour - oneDay
        rows == SelectSeq(historicalData[a],
                    LAMBDA row : row.timestamp >= oneDayAgo /\ row.timeframe = "hourly")
        priceRows == OrderByTimestamp(rows)
        total_volume == ToNumber(Coalesce(SqlSum(rows, "volume"), 0))
        total_fees == ToNumber(Coalesce(SqlSum(rows, "fees"), 0))
    IN [volume |-> total_volume, fees |-> total_fees,
        priceHistory |-> [i \in DOMAIN priceRows |-> priceRows[i].price]]

GetLast24HourData(a) ==
    /\ lastQuery' = [op |-> "getLast24HourData", outcome |-> "ok", addr |-> a,
                     at |-> hour, result |-> getLast24HourData(a)]
    /\ UNCHANGED <<cacheVars, stratVars, regVars, svcVars, hour, lastMetric>>

\* cleanup(): DELETE ... WHERE timestamp < cutoff
deleteOlderOrEqual(rows, cutoff) == SelectSeq(rows, LAMBDA row : ~(row.timestamp <= cutoff))
deleteOlder(rows, cutoff) == SelectSeq(rows, LAMBDA row : ~(row.timestamp < cutoff))

HistoryCleanup ==
    LET cutoff == hour - retentionPeriod
    IN /\ historicalData' = [a \in Addrs |-> deleteOlder(historicalData[a], cutoff)]
       /\ lastQuery' = [op |-> "cleanup", outcome |-> "ok", at |-> hour,
                        rows |-> RowCount]
       /\ UNCHANGED <<stratVars, regVars, svcVars, hour, lastMetric, stopped, now, dlmmInstances,
                      poolCache, timerOn, lastFire, call, tick, adder, everAdded, lastCall>>

\* cleanup(): the statement failed, the error is logged and thrown again
HistoryCleanupFailed ==
    /\ lastQuery' = [op |-> "cleanup", outcome |-> "raised", at |-> hour,
                     rows |-> RowCount]
    /\ UNCHANGED <<cacheVars, stratVars, regVars, svcVars, hour, lastMetric>>

AdvanceHour ==
    /\ hour < StartHour + HourStep * MaxHourSteps
    /\ hour' = hour + HourStep
    /\ UNCHANGED <<cacheVars, stratVars, regVars, svcVars, lastQuery, lastMetric>>


(***************************************************************************)
(* BalancedLiquidityStrategy.onAnalyze on a pool entry.  Amounts and bin   *)
(* ids are whole; expected returns and priorities are in units of 1/One.   *)
(***************************************************************************)
\* createAction(type, poolAddress, parameters, expectedReturn)
createAction(type, parameters, expectedReturn) ==
    [type |-> type, poolAddress |-> strategy.config[1].poolAddress,
     liquidityAmount |-> parameters.liquidityAmount, slippage |-> parameters.slippage,
     binRange |-> parameters.binRange, expectedReturn |-> expectedReturn,
     priority |-> 50 * One]

\* analyzeFeeCollection(poolData)
analyzeFeeCollection(poolData) ==
    IF poolData.fees24h > strategy.balancedConfig[1].feeCollectionThreshold
    THEN <<createAction("collect_fees",
                        [liquidityAmount |-> Undefined, slippage |-> Undefined,
                         binRange |-> Undefined],
                        Some(poolData.fees24h * One))>>
    ELSE <<>>

\* Math.floor(targetRange * rebalanceThreshold), the threshold in hundredths
movementThreshold ==
    (strategy.balancedConfig[1].targetRange
         * strategy.balancedConfig[1].rebalanceThreshold) \div 100

\* analyzeRebalancing(poolData): the actions it returns and the
\* lastActiveBinId it leaves
analyzeRebalancing(poolData) ==
    LET currentActiveBinId == poolData.activeId
        targetRange == strategy.balancedConfig[1].targetRange
        binMovement == Abs(currentActiveBinId - strategy.lastActiveBinId)
    IN IF now - strategy.lastRebalanceTime < minRebalanceInterval
       THEN [actions |-> <<>>, lastActiveBinId |-> strategy.lastActiveBinId]
       ELSE [actions |->
                 IF strategy.lastActiveBinId # 0 /\ binMovement >= movementThreshold
                 THEN <<createAction("rebalance",
                                     [liquidityAmount |-> Undefined, slippage |-> Undefined,
                                      binRange |-> Some(<<currentActiveBinId - targetRange,
                                                          currentActiveBinId + targetRange>>)],
                                     Undefined)>>
                 ELSE <<>>,
             lastActiveBinId |-> currentActiveBinId]

Clamp(lo, v, hi) == IF v < lo THEN lo ELSE IF v > hi THEN hi ELSE v

\* calculateOptimalPositionSize(poolData, marketData): a tenth of
\* maxPositionSize, scaled by the apr (around 0.2), the volatility and the
\* liquidity (around 100000), the multipliers in hundredths
calculateOptimalPositionSize(poolData) ==
    LET aprMultiplier == Clamp(50, poolData.apr * 5, 200)
        volatilityMultiplier == IF 100 - poolData.volatility[1] < 30 THEN 30
                                ELSE 100 - poolData.volatility[1]
        liquidityMultiplier == Clamp(50, poolData.liquidity \div 1000, 150)
        scaled == ((((((strategy.config[1].maxPositionSize[1] \div 10)
                        * aprMultiplier) \div 100)
                        * volatilityMultiplier) \div 100)
                        * liquidityMultiplier) \div 100
    IN Clamp(strategy.balancedConfig[1].minLiquidityAmount, scaled,
             strategy.balancedConfig[1].maxLiquidityAmount)

\* analyzeNewPositions(poolData, marketData)
analyzeNewPositions(poolData) ==
    LET isVolatilityAcceptable ==
            poolData.volatility[1] <= strategy.config[1].riskParameters[1].volatilityThreshold
        isAPRAttractive == poolData.apr >= 10
        hasGoodLiquidity == poolData.liquidity > 10000
        optimalSize == calculateOptimalPositionSize(poolData)
        targetRange == strategy.balancedConfig[1].targetRange
    IN IF /\ isVolatilityAcceptable /\ isAPRAttractive /\ hasGoodLiquidity
          /\ optimalSize > strategy.balancedConfig[1].minLiquidityAmount
          /\ optimalSize < strategy.balancedConfig[1].maxLiquidityAmount
       THEN <<createAction("create_position",
                           [liquidityAmount |-> Some(optimalSize), slippage |-> Some(1),
                            binRange |-> Some(<<poolData.activeId - targetRange,
                                                poolData.activeId + targetRange>>)],
                           Some(optimalSize
                                    * NumDiv((poolData.apr * One) \div 100, 365 * One)))>>
       ELSE <<>>

\* calculatePriority(action, marketData)
calculatePriorityUnclamped(action, marketData) ==
    LET poolData == marketData[action.poolAddress]
        returnBonus == IF action.expectedReturn = Undefined THEN 0
                       ELSE LET bonus == NumDiv(ToNumber(action.expectedReturn[1]), 100 * One)
                            IN IF bonus > 20 * One THEN 20 * One ELSE bonus
    IN NumAdd(NumAdd(NumAdd(IF action.type = "collect_fees" THEN 80 * One ELSE 50 * One,
                            returnBonus),
                     IF poolData.present /\ poolData.volatility[1] > 30
                     THEN 0 - 20 * One ELSE 0),
              IF poolData.present /\ poolData.apr > 20 THEN 15 * One ELSE 0)
calculatePriority(action, marketData) ==
    LET poolData == marketData[action.poolAddress]
        returnBonus == IF action.expectedReturn = Undefined THEN 0
                       ELSE LET bonus == NumDiv(ToNumber(action.expectedReturn[1]), 100 * One)
                            IN IF bonus > 20 * One THEN 20 * One ELSE bonus
        priority == NumAdd(NumAdd(NumAdd(IF action.type = "collect_fees" THEN 80 * One
                                         ELSE 50 * One,
                                         returnBonus),
                                  IF poolData.present /\ poolData.volatility[1] > 30
                                  THEN 0 - 20 * One ELSE 0),
                           IF poolData.present /\ poolData.apr > 20 THEN 15 * One ELSE 0)
    IN Clamp(0, priority, 100 * One)

\* onAnalyze on well-formed pool entries: nothing without the pool's entry;
\* otherwise the actions of the three units, each with its priority
onAnalyzePool(marketData) ==
    IF ~PoolFound(strategy.config[1], marketData) THEN <<>>
    ELSE LET poolData == marketData[strategy.config[1].poolAddress]
             actions == analyzeFeeCollection(poolData)
                            \o analyzeRebalancing(poolData).actions
                            \o analyzeNewPositions(poolData)
         IN [i \in DOMAIN actions |->
                [actions[i] EXCEPT !.priority = calculatePriority(actions[i], marketData)]]

\* analyze(marketData) of the balanced-liquidity strategy
BalancedAnalyze(marketData) ==
    /\ StrategyIdle
    /\ IF ~strategy.isInitialized
       THEN /\ lastRun' = RunOf("analyze", "NotInitializedError")
            /\ UNCHANGED <<strategy, seen>>
       ELSE LET found == PoolFound(strategy.config[1], marketData)
                poolData == marketData[strategy.config[1].poolAddress]
                candidates == onAnalyzePool(marketData)
            IN /\ lastRun' = RunOf("analyze", "ok") @@
                      [marketData |-> marketData, candidates |-> candidates,
                       actions |-> sortByPriority(applyRiskFilters(candidates, marketData)),
                       observedBefore |-> seen.observed,
                       sinceRebalance |-> now - strategy.lastRebalanceTime,
                       rebalancedBefore |-> seen.rebalanced,
                       cleanedUpBefore |-> seen.cleanedUp,
                       at |-> now]
               /\ strategy' = IF found
                              THEN [strategy EXCEPT !.lastActiveBinId =
                                       analyzeRebalancing(poolData).lastActiveBinId]
                              ELSE strategy
               /\ seen' = IF found THEN [seen EXCEPT !.observed = Some(poolData.activeId)]
                          ELSE seen
    /\ UNCHANGED <<cacheVars, regVars, svcVars, auxVars>>

\* the actions execute() is called with: one of each type
Executables == {action \in Universe : action.priority = 50 /\ action.slippage = Undefined}

(***************************************************************************)
(* MetricsService.  Every method is try { ... } catch { log; return the    *)
(* fallback }.  The body of a method either returns a value or throws: a   *)
(* Big throws on a division by zero and on a number that is not finite.    *)
(* Amounts, fee factors and bin steps are whole; ratios, rates and shares  *)
(* are in units of 1/One.  A number that is not finite is "NaN" or         *)
(* "Infinity".                                                             *)
(***************************************************************************)
Returns(v) == [threw |-> FALSE, value |-> v]
Throws == [threw |-> TRUE, value |-> 0]

\* try { attempt } catch (error) { logger.error(...); return fallback }
TryCatchRethrows(attempt, fallback) == attempt
TryCatch(attempt, fallback) == IF attempt.threw THEN Returns(fallback) ELSE attempt

\* hourlyData.reduce((total, point) => total.add(point[field]), new Big(0))
RECURSIVE SumField(_, _)
SumField(hourlyData, field) ==
    IF hourlyData = <<>> THEN 0
    ELSE SumField(SubSeq(hourlyData, 1, Len(hourlyData) - 1), field)
             + hourlyData[Len(hourlyData)][field]

\* calculateVolume24h(hourlyData)
calculateVolume24h(hourlyData) ==
    TryCatch(IF Len(hourlyData) = 0 THEN Returns(0)
             ELSE Returns(SumField(hourlyData, "volume")),
             0)

\* calculateFees24h(hourlyData)
calculateFees24h(hourlyData) ==
    TryCatch(IF Len(hourlyData) = 0 THEN Returns(0)
             ELSE Returns(SumField(hourlyData, "fees")),
             0)

\* calculateAPR(fees24h, totalLiquidity)
calculateAPRAsFraction(fees24h, totalLiquidity) ==
    TryCatch(IF totalLiquidity = 0 THEN Returns(0)
             ELSE LET dailyRate == BigDiv(fees24h, totalLiquidity)
                  IN Returns(ToNumber(dailyRate * 365)),
             0)
calculateAPR(fees24h, totalLiquidity) ==
    TryCatch(IF totalLiquidity = 0 THEN Returns(0)
             ELSE LET dailyRate == BigDiv(fees24h, totalLiquidity)
                  IN Returns(ToNumber(dailyRate * 365 * 100)),
             0)

\* calculateCompoundedAPR(dailyFee, totalLiquidity, daysPerYear)
calculateCompoundedAPR(dailyFee, totalLiquidity, daysPerYear) ==
    TryCatch(IF totalLiquidity = 0 THEN Returns(0)
             ELSE LET dailyRate == BigDiv(dailyFee, totalLiquidity)
                      compoundedReturn ==
                          NumAdd(NumPow(NumAdd(One, ToNumber(dailyRate)), daysPerYear),
                                 0 - One)
                  IN Returns(NumMul(compoundedReturn, 100 * One)),
             0)

\* the returns of calculateVolatility: currentPrice / prevPrice - 1 from the
\* second price on; a division by a zero price throws
PriceReturns(priceHistory) ==
    [i \in 1..(Len(priceHistory) - 1) |->
        ToNumber(BigDiv(priceHistory[i + 1], priceHistory[i]) - One)]

\* values.reduce((a, b) => a + b, 0)
RECURSIVE NumSum(_)
NumSum(values) ==
    IF values = <<>> THEN 0
    ELSE NumAdd(NumSum(SubSeq(values, 1, Len(values) - 1)), values[Len(values)])

\* values.reduce((a, b) => a + Math.pow(b - mean, 2), 0)
RECURSIVE SumSquaredDeviations(_, _)
SumSquaredDeviations(values, mean) ==
    IF values = <<>> THEN 0
    ELSE LET b == values[Len(values)]
         IN NumAdd(SumSquaredDeviations(SubSeq(values, 1, Len(values) - 1), mean),
                   NumPow(NumAdd(b, 0 - mean), 2))

\* the standard deviation calculateVolatility and calculateYieldStability take
StdDevOf(values) ==
    LET mean == NumDiv(NumSum(values), Len(values) * One)
        variance == NumDiv(SumSquaredDeviations(values, mean), Len(values) * One)
    IN NumSqrt(variance)

\* Math.sqrt(24 * 365) = 93.59...
SqrtHoursPerYear == ToNumber((9359 * One) \div 100)

\* calculateVolatility(priceHistory)
calculateVolatility(priceHistory) ==
    TryCatch(IF Len(priceHistory) < 2 THEN Returns(0)
             ELSE IF \E i \in 1..(Len(priceHistory) - 1) : priceHistory[i] = 0 THEN Throws
             ELSE Returns(NumMul(StdDevOf(PriceReturns(priceHistory)), SqrtHoursPerYear)),
             0)

\* calculateImpermanentLoss(initialPriceRatio, currentPriceRatio)
calculateImpermanentLoss(initialPriceRatio, currentPriceRatio) ==
    TryCatch(IF initialPriceRatio = 0 \/ currentPriceRatio = 0 THEN Returns(0)
             ELSE LET ratio == BigDiv(currentPriceRatio, initialPriceRatio)
                  IN \* Math.sqrt of a negative number is NaN, which new Big rejects
                     IF ToNumber(ratio) < 0 THEN Throws
                     ELSE LET sqrtRatio == NumSqrt(ToNumber(ratio))
                              numerator == 2 * sqrtRatio
                              denominator == One + ratio
                          IN IF denominator = 0 THEN Throws
                             ELSE Returns(ToNumber(BigDiv(numerator, denominator) - One)),
             0)

\* binData.reduce((sum, bin) => sum.add(bin[field]), new Big(0))
RECURSIVE TotalOf(_, _)
TotalOf(binData, field) ==
    IF binData = <<>> THEN 0
    ELSE TotalOf(SubSeq(binData, 1, Len(binData) - 1), field) + binData[Len(binData)][field]

\* liquidityShares.reduce((a, b) => a + b * b, 0)
RECURSIVE SumOfSharesNotSquared(_)
SumOfSharesNotSquared(liquidityShares) ==
    IF liquidityShares = <<>> THEN 0
    ELSE NumAdd(SumOfSharesNotSquared(SubSeq(liquidityShares, 1, Len(liquidityShares) - 1)),
                liquidityShares[Len(liquidityShares)])
RECURSIVE SumOfSquaredShares(_)
SumOfSquaredShares(liquidityShares) ==
    IF liquidityShares = <<>> THEN 0
    ELSE LET b == liquidityShares[Len(liquidityShares)]
         IN NumAdd(SumOfSquaredShares(SubSeq(liquidityShares, 1, Len(liquidityShares) - 1)),
                   NumMul(b, b))

\* getLiquidityDistribution(binData)
getLiquidityDistribution(binData) ==
    LET totalX == TotalOf(binData, "liquidityX")
        totalY == TotalOf(binData, "liquidityY")
        liquidityShares ==
            [i \in DOMAIN binData |->
                ToNumber(BigDiv(binData[i].liquidityX + binData[i].liquidityY,
                                totalX + totalY))]
        concentrationIndex == NumAdd(One, 0 - SumOfSquaredShares(liquidityShares))
        liquidityRatio == IF totalX = 0 THEN 0 ELSE ToNumber(BigDiv(totalY, totalX))
    IN TryCatch(IF Len(binData) = 0
                THEN Returns([concentrationIndex |-> 0, liquidityRatio |-> 0])
                ELSE IF totalX + totalY = 0 THEN Throws
                ELSE Returns([concentrationIndex |-> concentrationIndex,
                              liquidityRatio |-> liquidityRatio]),
                [concentrationIndex |-> 0, liquidityRatio |-> 0])

\* calculateVolatilityFee(volatilityAccumulator, maxVolatilityFactor, binStep)
calculateVolatilityFeeUncapped(volatilityAccumulator, maxVolatilityFactor, binStep) ==
    TryCatch(Returns(volatilityAccumulator * binStep), 0)
calculateVolatilityFee(volatilityAccumulator, maxVolatilityFactor, binStep) ==
    TryCatch(LET volatilityComponent == volatilityAccumulator * binStep
                 maxFee == maxVolatilityFactor
             IN Returns(IF volatilityComponent > maxFee THEN maxFee
                        ELSE volatilityComponent),
             0)

\* calculateFeeInfo(baseFactor, maxVolatilityFactor, volatilityAccumulator,
\* volumeX, volumeY, binStep); protocolShare is in tenths, protocolFees in
\* units of 1/One
calculateFeeInfo(baseFactor, maxVolatilityFactor, volatilityAccumulator, volumeX, volumeY, binStep) ==
    LET volatilityFee == calculateVolatilityFee(volatilityAccumulator,
                                                maxVolatilityFactor, binStep).value
        baseFeeBps == baseFactor * 100
        totalFeesBps == baseFeeBps + volatilityFee
        protocolShare == 3
        totalVolume == volumeX + volumeY
        protocolFees == BigDiv(totalVolume * totalFeesBps * protocolShare, 10 * 10000)
    IN TryCatch(Returns([baseFactor |-> baseFactor,
                         maxVolatilityFactor |-> maxVolatilityFactor,
                         maxFee |-> 100, protocolShare |-> protocolShare,
                         totalFeesBps |-> totalFeesBps,
                         volatilityFee |-> volatilityFee,
                         protocolFees |-> protocolFees]),
                [baseFactor |-> 0, maxVolatilityFactor |-> 0, maxFee |-> 100,
                 protocolShare |-> 3, totalFeesBps |-> 0, volatilityFee |-> 0,
                 protocolFees |-> 0])

\* calculateBinPrice(binId, binStep, basePrice)
calculateBinPrice(binId, binStep, basePrice) ==
    TryCatch(LET stepMultiplier == NumAdd(One, ToNumber(BigDiv(binStep, 10000)))
                 priceMultiplier == NumPow(stepMultiplier, binId)
             IN Returns(basePrice * priceMultiplier),
             0)

\* calculateBinMetrics(binId, timeInRange, volumeInBin, totalVolume,
\* liquidityInBin, totalLiquidity, lastTransition)
calculateBinMetrics(timeInRange, volumeInBin, totalVolume, liquidityInBin, totalLiquidity) ==
    TryCatch(IF liquidityInBin = 0 \/ totalVolume = 0 \/ totalLiquidity = 0 THEN Throws
             ELSE Returns([utilization |-> ToNumber(BigDiv(volumeInBin, liquidityInBin)),
                           timeInRange |-> timeInRange,
                           volumeShare |-> ToNumber(BigDiv(volumeInBin, totalVolume)),
                           liquidityConcentration |->
                               ToNumber(BigDiv(liquidityInBin, totalLiquidity))]),
             [utilization |-> 0, timeInRange |-> 0, volumeShare |-> 0,
              liquidityConcentration |-> 0])

\* calculateYieldStability(aprHistory): a division of numbers by zero does not
\* throw, it gives Infinity or NaN
calculateYieldStability(aprHistory) ==
    TryCatch(IF Len(aprHistory) < 2 THEN Returns(One)
             ELSE LET mean == NumDiv(NumSum(aprHistory), Len(aprHistory) * One)
                      stdDev == StdDevOf(aprHistory)
                  IN IF mean = 0
                     THEN Returns(IF stdDev = 0 THEN "NaN" ELSE 0)
                     ELSE LET cv == NumDiv(stdDev, mean)
                          IN IF One + cv = 0 THEN Returns("Infinity")
                             ELSE Returns(NumDiv(One, NumAdd(One, cv))),
             0)

(***************************************************************************)
(* The inputs of the metrics engine.                                       *)
(***************************************************************************)
\* bins a liquidity distribution is taken over at most
MaxBins == 3

SeqsUpTo(S, n) == UNION {[1..k -> S] : k \in 0..n}

\* fee and liquidity amounts
Fees24h == {0, 1, 70, 100}
Liquidities == {0, 7000, 10000, 30000}
DaysPerYear == {12, 365}
\* price ratios: none, 1, a little above 1, 2, 4, and a negative one
PriceRatios == {0, One, One + 15, 2 * One, 4 * One, 0 - One}
Prices == {0, 100, 110}
Bins == [liquidityX : {0, 1, 2}, liquidityY : {0, 1, 2}]
FeeFactors == {0, 1, 2}
VolatilityFactors == {0, 50, 100}
VolatilityAccumulators == {0, 1, 7}
BinSteps == {1, 10, 25}
Volumes == {0, 1000, 5000}
BinIds == {0 - 2, 0, 3}
Aprs == {0 - One, 0, One, 2 * One}

\* one call of a method: the service keeps nothing between calls, so a
\* behaviour of the metrics engine is one call and its result
MetricCall(op, args, result) == [op |-> op, args |-> args, result |-> result]

Calculate24h(hourlyData) ==
    /\ lastMetric = NoMetric
    /\ lastMetric' = MetricCall("calculate24h", <<hourlyData>>,
                                [volume |-> calculateVolume24h(hourlyData),
                                 fees |-> calculateFees24h(hourlyData)])
    /\ UNCHANGED <<cacheVars, stratVars, regVars, svcVars, hour, lastQuery>>

CalculateAPR(fees24h, totalLiquidity) ==
    /\ lastMetric = NoMetric
    /\ lastMetric' = MetricCall("calculateAPR", <<fees24h, totalLiquidity>>,
                                calculateAPR(fees24h, totalLiquidity))
    /\ UNCHANGED <<cacheVars, stratVars, regVars, svcVars, hour, lastQuery>>

CalculateCompoundedAPR(dailyFee, totalLiquidity, daysPerYear) ==
    /\ lastMetric = NoMetric
    /\ lastMetric' = MetricCall("calculateCompoundedAPR",
                                <<dailyFee, totalLiquidity, daysPerYear>>,
                                calculateCompoundedAPR(dailyFee, totalLiquidity, daysPerYear))
    /\ UNCHANGED <<cacheVars, stratVars, regVars, svcVars, hour, lastQuery>>

CalculateVolatility(priceHistory) ==
    /\ lastMetric = NoMetric
    /\ lastMetric' = MetricCall("calculateVolatility", <<priceHistory>>,
                                calculateVolatility(priceHistory))
    /\ UNCHANGED <<cacheVars, stratVars, regVars, svcVars, hour, lastQuery>>

CalculateImpermanentLoss(initialPriceRatio, currentPriceRatio) ==
    /\ lastMetric = NoMetric
    /\ lastMetric' = MetricCall("calculateImpermanentLoss",
                                <<initialPriceRatio, currentPriceRatio>>,
                                calculateImpermanentLoss(initialPriceRatio,
                                                         currentPriceRatio))
    /\ UNCHANGED <<cacheVars, stratVars, regVars, svcVars, hour, lastQuery>>

GetLiquidityDistribution(binData) ==
    /\ lastMetric = NoMetric
    /\ lastMetric' = MetricCall("getLiquidityDistribution", <<binData>>,
                                getLiquidityDistribution(binData))
    /\ UNCHANGED <<cacheVars, stratVars, regVars, svcVars, hour, lastQuery>>

CalculateFeeInfo(baseFactor, maxVolatilityFactor, volatilityAccumulator, volumeX, volumeY, binStep) ==
    /\ lastMetric = NoMetric
    /\ lastMetric' = MetricCall("calculateFeeInfo",
                                <<baseFactor, maxVolatilityFactor, volatilityAccumulator,
                                  volumeX, volumeY, binStep>>,
                                calculateFeeInfo(baseFactor, maxVolatilityFactor,
                                                 volatilityAccumulator, volumeX, volumeY,
                                                 binStep))
    /\ UNCHANGED <<cacheVars, stratVars, regVars, svcVars, hour, lastQuery>>

CalculateBinPrice(binId, binStep, basePrice) ==
    /\ lastMetric = NoMetric
    /\ lastMetric' = MetricCall("calculateBinPrice", <<binId, binStep, basePrice>>,
                                calculateBinPrice(binId, binStep, basePrice))
    /\ UNCHANGED <<cacheVars, stratVars, regVars, svcVars, hour, lastQuery>>

CalculateBinMetrics(timeInRange, volumeInBin, totalVolume, liquidityInBin, totalLiquidity) ==
    /\ lastMetric = NoMetric
    /\ lastMetric' = MetricCall("calculateBinMetrics",
                                <<timeInRange, volumeInBin, totalVolume, liquidityInBin,
                                  totalLiquidity>>,
                                calculateBinMetrics(timeInRange, volumeInBin, totalVolume,
                                                    liquidityInBin, totalLiquidity))
    /\ UNCHANGED <<cacheVars, stratVars, regVars, svcVars, hour, lastQuery>>

CalculateYieldStability(aprHistory) ==
    /\ lastMetric = NoMetric
    /\ lastMetric' = MetricCall("calculateYieldStability", <<aprHistory>>,
                                calculateYieldStability(aprHistory))
    /\ UNCHANGED <<cacheVars, stratVars, regVars, svcVars, hour, lastQuery>>

(***************************************************************************)
(* OrderExecutionService: executeAction for CREATE_POSITION,               *)
(* CLOSE_POSITION and EMERGENCY_EXIT, over the positions table             *)
(***************************************************************************)
Position(id, poolAddress, status) == [id |-> id, poolAddress |-> poolAddress, status |-> status]

\* DatabaseService.getPositionsByPool: the rows of the pool, as a snapshot
getPositionsByPool(poolAddress) == SelectSeq(positions, LAMBDA p : p.poolAddress = poolAddress)

\* DatabaseService.getPosition
hasPosition(id) == \E i \in DOMAIN positions : positions[i].id = id

\* position.status = CLOSED; updatePosition(position)
updatePosition(id) == [i \in DOMAIN positions |-> IF positions[i].id = id THEN [positions[i] EXCEPT !.status = "closed"] ELSE positions[i]]

\* the errors closePosition throws by itself, before it calls the chain
closePositionError(poolAddress, positionId) ==
    IF ~Truthy(positionId) THEN Some("Position ID is required for close position action")
    ELSE IF ~hasDlmm(poolAddress) THEN Some("DLMM instance not found for pool")
    ELSE IF ~hasPosition(positionId[1]) THEN Some("Position not found")
    ELSE Undefined

\* the catch of executeAction: { success: false, error: getErrorMessage(error) }
Failure(message) == [success |-> FALSE, error |-> Some(message)]
Success == [success |-> TRUE, error |-> Undefined]

\* the ExecutionResult emergencyExit builds from the results it collected
emergencyExitResult(results) ==
    LET successCount == Cardinality({i \in DOMAIN results : results[i].success})
    IN  [success |-> successCount = Len(results),
         error |-> IF successCount < Len(results) THEN Some("Some positions failed to close") ELSE Undefined]

Done(type, addr, positionId, result) ==
    [pc |-> "done", type |-> type, addr |-> addr, positionId |-> positionId,
     listed |-> FALSE, queue |-> <<>>, attempted |-> <<>>, failed |-> {}, result |-> result]

\* executeAction(CREATE_POSITION): the position is saved as ACTIVE once its
\* transactions are confirmed; any throw becomes a failure result
ExecuteCreatePosition(a, run) ==
    /\ order.pc # "closing"
    /\ Len(positions) < MaxPositions
    /\ IF ~hasDlmm(a)
       THEN /\ order' = Done("create_position", a, Undefined, Failure("DLMM instance not found for pool"))
            /\ UNCHANGED positions
       ELSE IF run.kind = "throws"
       THEN /\ order' = Done("create_position", a, Undefined, Failure(run.message))
            /\ UNCHANGED positions
       ELSE /\ positions' = Append(positions, Position(Len(positions) + 1, a, "active"))
            /\ order' = Done("create_position", a, Undefined, Success)
    /\ UNCHANGED <<cacheVars, stratVars, regVars, auxVars, market>>

\* one closePosition(action) called through executeAction, as a whole
CloseOne(type, a, positionId, run) ==
    LET error == closePositionError(a, positionId)
    IN  IF error # Undefined
        THEN /\ order' = Done(type, a, positionId, Failure(error[1]))
             /\ UNCHANGED positions
        ELSE IF run.kind = "throws"
        THEN /\ order' = Done(type, a, positionId, Failure(run.message))
             /\ UNCHANGED positions
        ELSE /\ positions' = updatePosition(positionId[1])
             /\ order' = Done(type, a, positionId, Success)

\* executeAction(CLOSE_POSITION)
ExecuteClosePosition(a, positionId, run) ==
    /\ order.pc # "closing"
    /\ CloseOne("close_position", a, positionId, run)
    /\ UNCHANGED <<cacheVars, stratVars, regVars, auxVars, market>>

\* the for-loop of emergencyExit from position i of the list on, up to the
\* next await of a closePosition: rows that are not ACTIVE are skipped, a
\* closePosition that throws by itself ends the call with a failure result,
\* and at the end of the list the collected results are summed up
RECURSIVE emergencyExit(_, _)
emergencyExit(o, i) ==
    IF i >= Len(o.queue)
    THEN [o EXCEPT !.pc = "done", !.result = emergencyExitResult(o.results)]
    ELSE LET position == o.queue[i + 1]
             error == closePositionError(o.addr, Some(position.id))
         IN  IF position.status # "active"
             THEN emergencyExit(o, i + 1)
             ELSE IF error # Undefined
             THEN [o EXCEPT !.pc = "done", !.idx = i + 1,
                            !.attempted = Append(@, position.id),
                            !.failed = @ \cup {position.id},
                            !.result = Failure(error[1])]
             ELSE [o EXCEPT !.pc = "closing", !.idx = i + 1,
                            !.attempted = Append(@, position.id)]

\* executeAction(EMERGENCY_EXIT): with a positionId one closePosition, without
\* one the positions of the pool are listed and the loop starts
ExecuteEmergencyExit(a, positionId, run) ==
    /\ order.pc # "closing"
    /\ IF Truthy(positionId)
       THEN CloseOne("emergency_exit", a, positionId, run)
       ELSE /\ UNCHANGED positions
            /\ order' = IF run.kind = "throws"
                        THEN Done("emergency_exit", a, positionId, Failure(run.message))
                        ELSE emergencyExit([Done("emergency_exit", a, positionId, Success)
                                               EXCEPT !.listed = TRUE,
                                                      !.queue = getPositionsByPool(a)]
                                            @@ [idx |-> 0, results |-> <<>>], 0)
    /\ UNCHANGED <<cacheVars, stratVars, regVars, auxVars, market>>

\* the awaited closePosition returns: the row is CLOSED, its result is
\* pushed, and the loop goes on
EmergencyCloseSucceeded ==
    /\ order.pc = "closing"
    /\ positions' = updatePosition(order.queue[order.idx].id)
    /\ order' = emergencyExit([order EXCEPT !.results = Append(@, Success)], order.idx)
    /\ UNCHANGED <<cacheVars, stratVars, regVars, auxVars, market>>

\* the awaited closePosition throws: closePosition rethrows, emergencyExit
\* rethrows out of its loop, and the catch of executeAction makes the result
EmergencyCloseFailed(message) ==
    /\ order.pc = "closing"
    /\ order' = [order EXCEPT !.pc = "done",
                              !.failed = @ \cup {order.queue[order.idx].id},
                              !.result = Failure(message)]
    /\ UNCHANGED <<cacheVars, stratVars, regVars, auxVars, market, positions>>

PoolSetNext ==
    \/ \E a \in Addrs : AddPoolStart(a)
    \/ AddPoolCreateFailed
    \/ AddPoolCreated
    \/ AddPoolRefreshed
    \/ AddPoolRefreshFailed
    \/ \E a \in Addrs : RemovePool(a)

\* the cache under getMarketData and the callers of addPool and removePool:
\* the pools are added before the first getMarketData (an addPool in flight
\* then completes during it) and removed at any time
NextMarket ==
    \/ AdvanceClock
    \/ GetMarketDataStart
    \/ GetMarketDataRefreshed
    \/ GetMarketDataRefreshFailed
    \/ market.pc = "idle" /\ \E a \in Addrs : AddPoolStart(a)
    \/ AddPoolCreateFailed
    \/ AddPoolCreated
    \/ AddPoolRefreshed
    \/ AddPoolRefreshFailed
    \/ \E a \in Addrs : RemovePool(a)

SpecMarket == Init /\ [][NextMarket]_vars

\* what the collaborators of one executeAction call do
OrderMessages == {"insufficient funds"}
OrderRuns == {[kind |-> "returns", message |-> ""]} \cup [kind : {"throws"}, message : OrderMessages]
PositionIds == {Undefined} \cup {Some(i) : i \in 1..MaxPositions}

\* the order execution service, one executeAction at a time, over pools that
\* are added before the first order and removed before it or while an
\* emergency exit awaits a close
NextOrders ==
    \/ \E a \in Addrs, run \in OrderRuns : ExecuteCreatePosition(a, run)
    \/ \E a \in Addrs, id \in PositionIds, run \in OrderRuns : ExecuteClosePosition(a, id, run)
    \/ \E a \in Addrs, id \in PositionIds, run \in OrderRuns : ExecuteEmergencyExit(a, id, run)
    \/ EmergencyCloseSucceeded
    \/ \E message \in OrderMessages : EmergencyCloseFailed(message)
    \/ order.pc = "idle" /\ PoolSetNext
    \/ order.pc = "closing" /\ \E a \in Addrs : RemovePool(a)

SpecOrders == Init /\ [][NextOrders]_vars

\* the cache under concurrent readers, the timer not installed
Next ==
    \/ AdvanceClock
    \/ \E c \in Callers, a \in Addrs : GetPoolDataStart(c, a)
    \/ \E c \in Callers : GetPoolDataRefreshed(c)
    \/ \E c \in Callers : GetPoolDataFailed(c)
    \/ PoolSetNext

Spec == Init /\ [][Next]_vars

\* the cache under the periodic callback and one reader
TheReader == CHOOSE c \in Callers : TRUE

NextTimer ==
    \/ AdvanceClock
    \/ Initialize
    \/ \E t \in Tickers : TickFire(t)
    \/ \E t \in Tickers : TickRefreshed(t)
    \/ \E t \in Tickers : TickRefreshFailed(t)
    \/ \E a \in Addrs : GetPoolDataStart(TheReader, a)
    \/ GetPoolDataRefreshed(TheReader)
    \/ GetPoolDataFailed(TheReader)
    \/ PoolSetNext

SpecTimer == Init /\ [][NextTimer]_vars

\* the cache under one reader and the callers of addPool and removePool
NextPools ==
    \/ AdvanceClock
    \/ \E a \in Addrs : GetPoolDataStart(TheReader, a)
    \/ GetPoolDataRefreshed(TheReader)
    \/ GetPoolDataFailed(TheReader)
    \/ PoolSetNext

SpecPools == Init /\ [][NextPools]_vars

\* the cache under one reader and the periodic callback: initialize() is
\* called as the service starts, and a run of the callback ends before the
\* next one starts
TheTicker == CHOOSE t \in Tickers : TRUE

NextSnapshot ==
    \/ AdvanceClock
    \/ now = StartTime /\ Initialize
    \/ TickFire(TheTicker)
    \/ TickRefreshed(TheTicker)
    \/ TickRefreshFailed(TheTicker)
    \/ \E a \in Addrs : GetPoolDataStart(TheReader, a)
    \/ GetPoolDataRefreshed(TheReader)
    \/ GetPoolDataFailed(TheReader)
    \/ PoolSetNext

SpecSnapshot == Init /\ [][NextSnapshot]_vars

\* the service with its timer, used until it is stopped: addPool and
\* removePool are called while it runs, what is in flight goes on
NextStop ==
    \/ AdvanceClock
    \/ Initialize
    \/ \E t \in Tickers : TickFire(t)
    \/ \E t \in Tickers : TickRefreshed(t)
    \/ \E t \in Tickers : TickRefreshFailed(t)
    \/ stopped = "no" /\ \E a \in Addrs : AddPoolStart(a)
    \/ AddPoolCreateFailed
    \/ AddPoolCreated
    \/ AddPoolRefreshed
    \/ AddPoolRefreshFailed
    \/ stopped = "no" /\ \E a \in Addrs : RemovePool(a)
    \/ Cleanup
    \/ Close

SpecStop == Init /\ [][NextStop]_vars

\* one strategy instance and its caller
NextStrategy ==
    \/ AdvanceStrategyClock
    \/ \E config \in Configs : StrategyInitialize(config)
    \/ /\ StrategyIdle
       /\ \E runs \in AnalysisRuns, marketData \in MarketDatas :
              StrategyAnalyze(runs, marketData)
    \/ \E action \in Universe, run \in ExecutionRuns : StrategyExecute(action, run)
    \/ StrategyCleanup
    \/ StrategyReturn

SpecStrategy == Init /\ [][NextStrategy]_vars

\* one registry and its callers
NextRegistry ==
    \/ \E added \in Strategies : Register(added)
    \/ \E name \in Names : Unregister(name)
    \/ Clear
    \/ \E name \in Names : Get(name)
    \/ List

SpecRegistry == Init /\ [][NextRegistry]_vars

\* the history store alone: points are recorded with timestamps on both sides
\* of the two horizons, read back, and pruned
NextHistory ==
    \/ AdvanceHour
    \/ RowCount < MaxRows
        /\ \E a \in Addrs, dataPoint \in DataPoints, timeframe \in TimeFrames :
               AddDataPoint(a, dataPoint, timeframe)
    \/ \E a \in Addrs : AddDataPointFailed(a)
    \/ \E a \in Addrs, timeframe \in TimeFrames :
           GetHistoricalData(a, timeframe, hour - retentionPeriod, hour)
    \/ \E a \in Addrs : GetLast24HourData(a)
    \/ HistoryCleanup
    \/ HistoryCleanupFailed

SpecHistory == Init /\ [][NextHistory]_vars

\* the balanced-liquidity strategy on pool entries
NextBalanced ==
    \/ AdvanceStrategyClock
    \/ \E config \in BalancedConfigs : StrategyInitialize(config)
    \/ \E marketData \in BalancedMarketDatas : BalancedAnalyze(marketData)
    \/ \E action \in Executables, run \in ExecutionRuns : StrategyExecute(action, run)
    \/ StrategyCleanup
    \/ StrategyReturn

SpecBalanced == Init /\ [][NextBalanced]_vars

\* the metrics engine alone: each computation is applied to each input
NextMetrics ==
    \/ \E hourlyData \in SeqsUpTo(DataPoints, 2) : Calculate24h(hourlyData)
    \/ \E fees24h \in Fees24h, totalLiquidity \in Liquidities :
           CalculateAPR(fees24h, totalLiquidity)
    \/ \E dailyFee \in Fees24h, totalLiquidity \in Liquidities, daysPerYear \in DaysPerYear :
           CalculateCompoundedAPR(dailyFee, totalLiquidity, daysPerYear)
    \/ \E priceHistory \in SeqsUpTo(Prices, 3) : CalculateVolatility(priceHistory)
    \/ \E initialPriceRatio \in PriceRatios, currentPriceRatio \in PriceRatios :
           CalculateImpermanentLoss(initialPriceRatio, currentPriceRatio)
    \/ \E binData \in SeqsUpTo(Bins, MaxBins) : GetLiquidityDistribution(binData)
    \/ \E baseFactor \in FeeFactors, maxVolatilityFactor \in VolatilityFactors,
          volatilityAccumulator \in VolatilityAccumulators,
          volumeX \in Volumes, volumeY \in Volumes, binStep \in BinSteps :
           CalculateFeeInfo(baseFactor, maxVolatilityFactor, volatilityAccumulator,
                            volumeX, volumeY, binStep)
    \/ \E binId \in BinIds, binStep \in BinSteps, basePrice \in Prices :
           CalculateBinPrice(binId, binStep, basePrice)
    \/ \E volumeInBin \in Volumes, totalVolume \in Volumes,
          liquidityInBin \in Liquidities, totalLiquidity \in Liquidities :
           CalculateBinMetrics(1, volumeInBin, totalVolume, liquidityInBin, totalLiquidity)
    \/ \E aprHistory \in SeqsUpTo(Aprs, 3) : CalculateYieldStability(aprHistory)

SpecMetrics == Init /\ [][NextMetrics]_vars

(***************************************************************************)
(* Properties of the pool-state cache                                      *)
(***************************************************************************)
GetPoolDataDone == lastCall.op = "getPoolData"

\* C1: when the refresh started by getPoolData(P) fails while a snapshot of
\* P is cached, the call returns that snapshot instead of raising; a None
\* after a refresh attempt happens only when nothing was cached.
C1_FailedRefreshServesPrevious ==
    GetPoolDataDone =>
        /\ (lastCall.refresh = "failed" /\ lastCall.before # NoSnap) =>
               (lastCall.outcome = "snapshot" /\ lastCall.snap = lastCall.before)
        /\ (lastCall.refresh # "none" /\ lastCall.outcome = "null") =>
               lastCall.before = NoSnap

\* C2: while a pool's cached snapshot is stale, at most one refresh started
\* by getPoolData callers is in flight for it.
C2_ReadersSingleFlight ==
    \A a \in Addrs :
        (poolCache[a] # NoSnap /\ ~Fresh(a)) => Cardinality(CallerRefreshes(a)) <= 1

\* C3: never are two refreshes of one pool, started by periodic ticks or by
\* a stale getPoolData, in flight at once.
C3_OneRefreshPerPool ==
    \A a \in Addrs :
        Cardinality(TickRefreshes(a)) + Cardinality(CallerRefreshes(a)) <= 1

C10_UnknownAddressYieldsNull ==
    [][\A c \in Callers, a \in Addrs :
          (GetPoolDataStart(c, a) /\ a \notin everAdded) =>
              /\ lastCall'.op = "getPoolData" /\ lastCall'.addr = a
              /\ lastCall'.outcome = "null" /\ lastCall'.refresh = "none"
              /\ call'[c].pc = "idle"
              /\ UNCHANGED <<dlmmInstances, poolCache>>]_vars

C10_Witness ==
    /\ GetPoolDataDone /\ lastCall.addr \notin everAdded
    /\ lastCall.outcome = "null" /\ lastCall.refresh = "none"

\* C11: an addPool(A) that raises, because creating the handle failed or
\* because the first refresh failed, leaves A untracked.
C11_FailedAddLeavesUntracked ==
    (lastCall.op = "addPool" /\ lastCall.outcome = "raise") => ~lastCall.tracked

\* C12: addPool(P) on a tracked pool returns at once without error, starts
\* no collaborator call, and leaves the tracked set and the cache as they
\* were.
C12_AddTrackedPoolIsNoOp ==
    [][\A a \in Addrs :
          (AddPoolStart(a) /\ a \in Tracked) =>
              /\ lastCall'.op = "addPool" /\ lastCall'.addr = a
              /\ lastCall'.outcome = "ok" /\ lastCall'.refresh = "none"
              /\ adder' = adder
              /\ UNCHANGED <<dlmmInstances, poolCache>>]_vars

C12_Witness ==
    /\ lastCall.op = "addPool" /\ lastCall.outcome = "ok"
    /\ lastCall.refresh = "none" /\ lastCall.tracked
    /\ lastCall.before # NoSnap
    /\ poolCache[lastCall.addr] = lastCall.before

\* removePool(a) drops a from both maps and leaves every other pool alone
RemovePoolFrame(a) ==
    /\ a \notin Tracked' /\ poolCache'[a] = NoSnap
    /\ \A b \in Addrs \ {a} :
           /\ b \in Tracked' <=> b \in Tracked
           /\ poolCache'[b] = poolCache[b]
    /\ lastCall'.op = "removePool" /\ lastCall'.outcome = "ok"

RefreshCompletes(a) ==
    \/ \E c \in Callers : call[c].addr = a /\ GetPoolDataRefreshed(c)
    \/ adder.addr = a /\ AddPoolRefreshed
    \/ \E t \in Tickers : tick[t].addr = a /\ TickRefreshed(t)

\* a refresh fails in this step
RefreshFails ==
    \/ \E c \in Callers : GetPoolDataFailed(c)
    \/ AddPoolRefreshFailed
    \/ \E t \in Tickers : TickRefreshFailed(t)

\* C14: every refresh that completes, whether started by addPool, by a
\* stale getPoolData or by a periodic tick, appends exactly one data point
\* to the pool's historical series.
C14_RefreshAppendsOnePoint ==
    [][\A a \in Addrs :
          RefreshCompletes(a) =>
              Len(historicalData'[a]) = Len(historicalData[a]) + 1]_vars

\* C15: the cached entry of a pool changes only when a refresh of that pool
\* completes, and then to the snapshot that refresh built, or when the pool
\* is evicted; a refresh that fails leaves the cache untouched; a snapshot
\* getPoolData returns is the pool's whole cached entry.
C15_SnapshotsAreWhole ==
    [][/\ \A a \in Addrs :
             poolCache'[a] # poolCache[a] =>
                 \/ poolCache'[a] = NoSnap
                 \/ RefreshCompletes(a) /\ poolCache'[a] = Snapshot(a, now)
       /\ RefreshFails => UNCHANGED poolCache
       /\ (lastCall' # lastCall /\ lastCall'.op = "getPoolData"
               /\ lastCall'.outcome = "snapshot") =>
              /\ lastCall'.snap = poolCache'[lastCall'.addr]
              /\ lastCall'.snap.address = lastCall'.addr
              /\ lastCall'.snap.lastUpdated >= StartTime]_vars

\* a reader was served the cached snapshot while a refresh of the same pool
\* was in flight
C15_Witness ==
    /\ GetPoolDataDone /\ lastCall.outcome = "snapshot" /\ lastCall.refresh = "none"
    /\ TickRefreshes(lastCall.addr) # {}
    /\ lastCall.snap = poolCache[lastCall.addr]
    /\ lastCall.snap.address = lastCall.addr

\* C16: once cleanup() or close() has returned, no firing of the periodic
\* callback starts a refresh.
C16_StopCancelsTimer ==
    [][\A t \in Tickers :
          (stopped # "no" /\ TickFire(t)) => tick'[t].pc # "updating"]_vars

(***************************************************************************)
(* Properties of the strategy's analyze()                                  *)
(***************************************************************************)
AnalyzeDone == lastRun.op = "analyze" /\ lastRun.outcome = "ok"

Offered == {lastRun.candidates[i] : i \in DOMAIN lastRun.candidates}
Returned == {lastRun.actions[i] : i \in DOMAIN lastRun.actions}
Count(x, seq) == Cardinality({i \in DOMAIN seq : seq[i] = x})

ExceedsMaxPositionSize(action, config) ==
    /\ action.liquidityAmount # Undefined
    /\ config.maxPositionSize # Undefined
    /\ action.liquidityAmount[1] > config.maxPositionSize[1]

PoolTooVolatile(action, marketData, config) ==
    /\ marketData[action.poolAddress].present
    /\ marketData[action.poolAddress].volatility # Undefined
    /\ config.riskParameters # Undefined
    /\ marketData[action.poolAddress].volatility[1]
           > config.riskParameters[1].volatilityThreshold

ExceedsMaxSlippage(action, config) ==
    /\ action.slippage # Undefined
    /\ config.riskParameters # Undefined
    /\ action.slippage[1] > config.riskParameters[1].maxSlippage

\* C4: no action analyze() returns has a liquidityAmount above the
\* configured maxPositionSize.
C4_NoOversizedAction ==
    AnalyzeDone =>
        \A action \in Returned : ~ExceedsMaxPositionSize(action, lastRun.config[1])

C4_Witness ==
    /\ AnalyzeDone
    /\ \E action \in Offered : ExceedsMaxPositionSize(action, lastRun.config[1])
    /\ \E action \in Returned : action.liquidityAmount # Undefined

C7_SafeSubsetByPriority ==
    /\ (lastRun.op = "analyze" /\ lastRun.wasInitialized) => lastRun.outcome = "ok"
    /\ AnalyzeDone =>
        /\ \A x \in Universe :
               Count(x, lastRun.actions) =
                   IF isActionSafe(x, lastRun.marketData)
                   THEN Count(x, lastRun.candidates) ELSE 0
        /\ \A i, j \in DOMAIN lastRun.actions :
               i < j => lastRun.actions[i].priority >= lastRun.actions[j].priority

C7_Witness ==
    /\ AnalyzeDone
    /\ Len(lastRun.candidates) = 2 /\ Len(lastRun.actions) = 2
    /\ lastRun.candidates[1].priority < lastRun.candidates[2].priority
    /\ lastRun.actions[1] = lastRun.candidates[2]
    /\ lastRun.actions[2] = lastRun.candidates[1]

\* C19: an error raised inside one unit of onAnalyze, or in the risk
\* evaluation of one candidate, costs the result nothing else: analyze()
\* does not raise and returns every action the risk filter accepts of every
\* unit that raised no error.
C19_UnitErrorsAreIsolated ==
    /\ (lastRun.op = "analyze" /\ lastRun.wasInitialized) => lastRun.outcome = "ok"
    /\ (AnalyzeDone /\ PoolFound(lastRun.config[1], lastRun.marketData)) =>
           \A u \in UnitNames :
               ~lastRun.runs[u].threw =>
                   \A i \in DOMAIN lastRun.runs[u].actions :
                       isActionSafe(lastRun.runs[u].actions[i], lastRun.marketData) =>
                           lastRun.runs[u].actions[i] \in Returned

\* the fee unit raised an error and returned nothing, and the action of a
\* later unit was returned
C19_Witness ==
    /\ AnalyzeDone
    /\ lastRun.runs["fee"].threw /\ lastRun.runs["fee"].actions = <<>>
    /\ \E u \in {"rebalance", "position"} :
           /\ ~lastRun.runs[u].threw
           /\ lastRun.runs[u].actions # <<>>
           /\ lastRun.runs[u].actions[1] \in Returned

\* the configuration lacks a pool address, lacks maxPositionSize or has a
\* non-positive one, or lacks risk parameters
LacksRequired(config) ==
    \/ config.poolAddress = ""
    \/ config.maxPositionSize = Undefined
    \/ config.maxPositionSize # Undefined /\ config.maxPositionSize[1] <= 0
    \/ config.riskParameters = Undefined

\* C17: initialize(config) raises when config lacks a pool address, has a
\* missing or non-positive maxPositionSize, or lacks risk parameters; a
\* strategy no initialize() has succeeded on stays uninitialized, and
\* analyze() and execute() on it raise.
C17_InvalidConfigRaises ==
    /\ (lastRun.op = "initialize" /\ LacksRequired(lastRun.arg)) =>
           lastRun.outcome = "raise"
    /\ (lastRun.op = "initialize" /\ lastRun.outcome = "raise"
           /\ lastRun.phase = "uninitialized") =>
           ~strategy.isInitialized /\ strategy.phase = "uninitialized"
    /\ strategy.phase = "uninitialized" => ~strategy.isInitialized
    /\ (lastRun.op \in {"analyze", "execute"} /\ lastRun.phase = "uninitialized") =>
           lastRun.outcome = "NotInitializedError"

\* analyze() or execute() raised after a rejected initialize() on a fresh
\* strategy had left its configuration behind
C17_Witness ==
    /\ lastRun.op \in {"analyze", "execute"}
    /\ lastRun.phase = "uninitialized"
    /\ lastRun.config # Undefined /\ LacksRequired(lastRun.config[1])
    /\ lastRun.outcome = "NotInitializedError"

\* C8: analyze() and execute() raise the not-initialized error, and return
\* nothing, whenever no initialize() has succeeded yet or cleanup() has run
\* since.
C8_NotInitializedRaises ==
    (lastRun.op \in {"analyze", "execute"} /\ lastRun.phase # "initialized") =>
        /\ lastRun.outcome = "NotInitializedError"
        /\ DOMAIN lastRun \cap {"actions", "success"} = {}

C8_Witness ==
    /\ lastRun.op \in {"analyze", "execute"}
    /\ lastRun.phase = "cleaned-up"
    /\ lastRun.outcome = "NotInitializedError"

(***************************************************************************)
(* Properties of the strategy's execute()                                  *)
(***************************************************************************)
\* C18: on an initialized strategy execute(action) does not raise: what
\* onExecute throws comes back as a result with success = false and the
\* thrown failure's message as error, a result onExecute returns comes back
\* as it is, and the strategy is still initialized afterwards.
C18_ExecuteNeverRaises ==
    (lastRun.op = "execute" /\ lastRun.wasInitialized) =>
        /\ lastRun.outcome = "ok"
        /\ lastRun.run.kind = "throws" =>
               /\ ~lastRun.success
               /\ lastRun.run.thrown.kind \in {"Error", "string"} =>
                      lastRun.error = Some(lastRun.run.thrown.message)
               /\ lastRun.error # Undefined
        /\ lastRun.run.kind = "returns" =>
               /\ lastRun.success = lastRun.run.result.success
               /\ lastRun.error = lastRun.run.result.error
        /\ strategy.isInitialized

C18_Witness ==
    /\ lastRun.op = "execute" /\ lastRun.outcome = "ok"
    /\ lastRun.run.kind = "throws" /\ lastRun.run.thrown.kind = "Error"
    /\ ~lastRun.success
    /\ lastRun.error = Some(lastRun.run.thrown.message)
    /\ strategy.isInitialized

(***************************************************************************)
(* Properties of the StrategyRegistry                                      *)
(***************************************************************************)
\* the names registered and not removed since
RegisteredNames == {name \in Names : registered[name] # NoStrategy}

\* C20: after any sequence of register, unregister and clear, get(name)
\* returns the strategy registered last under the name and raises
\* 'Strategy not found' for a name not registered; list() holds exactly the
\* registered names, each once, and count() is their number.
C20_RegistryIsAMap ==
    /\ \A name \in Names :
           IF name \in RegisteredNames
           THEN /\ registryGet(name).outcome = "ok"
                /\ registryGet(name).strategy = registered[name]
           ELSE /\ registryGet(name).outcome = "raise"
                /\ registryGet(name).message = <<"Strategy not found: ", name>>
    /\ {registryList[i] : i \in DOMAIN registryList} = RegisteredNames
    /\ \A i, j \in DOMAIN registryList : i # j => registryList[i] # registryList[j]
    /\ registryCount = Cardinality(RegisteredNames)
    /\ lastLookup.op = "get" => lastLookup.result = registryGet(lastLookup.name)
    /\ lastLookup.op = "list" =>
           lastLookup.names = registryList /\ lastLookup.count = registryCount

\* a name was registered again with another instance while another name
\* was registered after it
C20_Witness ==
    /\ lastLookup.op = "register" /\ lastLookup.replaced
    /\ Len(strategies) = 2
    /\ strategies[1] = lastLookup.strategy
    /\ lastLookup.strategy.instance = 2
    /\ registryGet(lastLookup.strategy.name).strategy = lastLookup.strategy

(***************************************************************************)
(* Properties of the history store                                         *)
(***************************************************************************)
IsPrefix(s, t) == Len(s) <= Len(t) /\ SubSeq(t, 1, Len(s)) = s

\* s is t with some of its elements left out
RECURSIVE IsSubSeq(_, _)
IsSubSeq(s, t) ==
    IF s = <<>> THEN TRUE
    ELSE IF t = <<>> THEN FALSE
    ELSE IF Head(s) = Head(t) THEN IsSubSeq(Tail(s), Tail(t))
    ELSE IsSubSeq(s, Tail(t))

\* the rows no older than the retention period
WithinRetention(rows) ==
    SelectSeq(rows, LAMBDA row : row.timestamp >= hour - retentionPeriod)

\* C21: under any sequence of addDataPoint and cleanup a recorded point is
\* never modified; an addDataPoint that returns adds exactly its one point
\* (one that raises adds none) and removes none; cleanup removes only points
\* older than the 90-day retention period, so that every younger point stays
\* in the store, in its place, and getHistoricalData returns it.
C21_HistoryIsAppendOnly ==
    [][/\ \A a \in Addrs :
              historicalData'[a] # historicalData[a] =>
                  \/ /\ lastQuery'.op = "addDataPoint"
                     /\ lastQuery'.outcome = "ok"
                     /\ lastQuery'.addr = a
                     /\ historicalData'[a] =
                            Append(historicalData[a],
                                   RowOf(lastQuery'.dataPoint, lastQuery'.timeframe))
                  \/ /\ lastQuery'.op = "cleanup"
                     /\ IsSubSeq(historicalData'[a], historicalData[a])
                     /\ WithinRetention(historicalData'[a]) = WithinRetention(historicalData[a])
       /\ (lastQuery'.op = "addDataPoint" /\ lastQuery'.outcome = "ok")
              => RowCount' = lastQuery'.rows + 1
       /\ (lastQuery'.op = "addDataPoint" /\ lastQuery'.outcome = "raised")
              => RowCount' = lastQuery'.rows
       /\ lastQuery'.op = "getHistoricalData" =>
              LET rows == historicalData'[lastQuery'.addr]
                  wanted == {i \in DOMAIN rows :
                                /\ rows[i].timeframe = lastQuery'.timeframe
                                /\ rows[i].timestamp >= lastQuery'.startTime
                                /\ rows[i].timestamp <= lastQuery'.endTime}
                  result == lastQuery'.result
              IN /\ Len(result) = Cardinality(wanted)
                 /\ \A i \in wanted : \E k \in DOMAIN result :
                        RowOf(result[k], lastQuery'.timeframe) = rows[i]]_vars

\* a cleanup has removed an old point and has left a younger one
C21_Witness ==
    /\ lastQuery.op = "cleanup"
    /\ lastQuery.outcome = "ok"
    /\ 0 < RowCount
    /\ RowCount < lastQuery.rows

RECURSIVE SumOver(_, _, _)
SumOver(rows, indices, column) ==
    IF indices = {} THEN 0
    ELSE LET i == CHOOSE x \in indices : TRUE
         IN rows[i][column] + SumOver(rows, indices \ {i}, column)

\* the hourly rows of rows that lie in the 24 hours up to hour at
Last24Hours(rows, at) ==
    {i \in DOMAIN rows : /\ rows[i].timeframe = "hourly"
                         /\ rows[i].timestamp >= at - oneDay
                         /\ rows[i].timestamp <= at}

\* C22: getLast24HourData(P) returns volume and fees equal to the sums of
\* those fields over exactly P's hourly points of the trailing 24 hours, and
\* priceHistory equal to their prices in ascending timestamp order; points
\* of other pools, of other granularities or older than 24 hours contribute
\* nothing, and an empty window yields zero sums and an empty price list.
C22_Last24HoursAggregates ==
    lastQuery.op = "getLast24HourData" =>
        LET rows == historicalData[lastQuery.addr]
            window == Last24Hours(rows, lastQuery.at)
            n == Cardinality(window)
            result == lastQuery.result
        IN /\ result.volume = SumOver(rows, window, "volume")
           /\ result.fees = SumOver(rows, window, "fees")
           /\ Len(result.priceHistory) = n
           /\ \E f \in [1..n -> window] :
                  /\ \A j, k \in 1..n : j # k => f[j] # f[k]
                  /\ \A k \in 1..n : result.priceHistory[k] = rows[f[k]].price
                  /\ \A k \in 1..(n - 1) : rows[f[k]].timestamp <= rows[f[k + 1]].timestamp

(***************************************************************************)
(* Properties of the metrics engine                                        *)
(***************************************************************************)
\* C23: calculateAPR(fees24h, liquidity) returns 0 when liquidity is 0 and
\* otherwise (fees24h / liquidity) * 365 * 100, exactly so whenever the
\* quotient and the product need no rounding; it is never negative for
\* fees24h >= 0 and liquidity > 0, is 0 when fees24h is 0, and gives 365 for
\* fees24h = 100, liquidity = 10000.
C23_APRFormula ==
    lastMetric.op = "calculateAPR" =>
        LET f == lastMetric.args[1]
            l == lastMetric.args[2]
            apr == lastMetric.result.value
        IN /\ ~lastMetric.result.threw
           /\ l = 0 => apr = 0
           /\ (f >= 0 /\ l > 0) => apr >= 0
           /\ f = 0 => apr = 0
           /\ (f = 100 /\ l = 10000) => apr = 365 * One
           /\ (/\ l # 0
               /\ (f * One) % l = 0
               /\ ToNumber(((f * One) \div l) * 36500) = ((f * One) \div l) * 36500)
                  => apr = ((f * One) \div l) * 36500

\* the APR of the scenario, and of a pool without liquidity
C23_Witness ==
    /\ lastMetric.op = "calculateAPR"
    /\ lastMetric.args = <<100, 10000>>
    /\ lastMetric.result.value = 365 * One

\* C24: calculateImpermanentLoss(initial, current) returns 0 when either
\* ratio is 0; for positive ratios it returns 2*sqrt(r)/(1+r) - 1 with
\* r = current/initial, which is exactly 0 when current = initial and
\* strictly negative for every other ratio: the result is never positive
\* (r = 4 gives -0.2).
C24_ImpermanentLossIsNeverPositive ==
    lastMetric.op = "calculateImpermanentLoss" =>
        LET initial == lastMetric.args[1]
            current == lastMetric.args[2]
            il == lastMetric.result.value
        IN /\ (initial = 0 \/ current = 0) => il = 0
           /\ (initial > 0 /\ current > 0) =>
                  /\ current = initial => il = 0
                  /\ current # initial => il < 0
                  /\ current = 4 * initial => 5 * il = 0 - One

\* the unit in the last place of a number, in units of 1/One
Ulp(v) ==
    IF NumDigits(Abs(v)) > SignificantDigits
    THEN Pow10(NumDigits(Abs(v)) - SignificantDigits) ELSE 1

\* the sum of the squared totals of the bins
RECURSIVE SquaredTotals(_)
SquaredTotals(binData) ==
    IF binData = <<>> THEN 0
    ELSE LET bin == binData[Len(binData)]
         IN SquaredTotals(SubSeq(binData, 1, Len(binData) - 1))
                + (bin.liquidityX + bin.liquidityY) * (bin.liquidityX + bin.liquidityY)

C27_MetricsNeverRaise ==
    /\ lastMetric.op = "calculate24h" =>
           /\ ~lastMetric.result.volume.threw
           /\ ~lastMetric.result.fees.threw
           /\ lastMetric.args[1] = <<>> =>
                  (lastMetric.result.volume.value = 0 /\ lastMetric.result.fees.value = 0)
    /\ lastMetric.op \notin {"none", "calculate24h"} => ~lastMetric.result.threw

\* a price series with a zero price before its end: the division throws
\* inside calculateVolatility, which returns its fallback 0
C27_Witness ==
    /\ lastMetric.op = "calculateVolatility"
    /\ Len(lastMetric.args[1]) >= 2
    /\ lastMetric.args[1][1] = 0
    /\ lastMetric.result = Returns(0)

\* a completed analyze() of the balanced-liquidity strategy that found its
\* pool's entry, and that entry
AnalyzedPool ==
    /\ lastRun.op = "analyze"
    /\ lastRun.outcome = "ok"
    /\ PoolFound(lastRun.config[1], lastRun.marketData)
AnalyzedEntry == lastRun.marketData[lastRun.config[1].poolAddress]

HasType(actions, type) == \E i \in DOMAIN actions : actions[i].type = type

\* C28: for all bin ids b0 and b1, 0 and negative ids included: when the
\* previous analyze() observed active bin b0, the cooldown interval has
\* elapsed since the last rebalance and |b1 - b0| >= floor(N *
\* rebalanceThreshold), analysing an entry whose active bin is b1 produces a
\* rebalance candidate whose binRange is [b1 - N, b1 + N].
C28_RebalanceOnBinMovement ==
    (/\ AnalyzedPool
     /\ lastRun.observedBefore # Undefined
     /\ lastRun.sinceRebalance >= minRebalanceInterval
     /\ Abs(AnalyzedEntry.activeId - lastRun.observedBefore[1]) >= movementThreshold)
        => \E i \in DOMAIN lastRun.candidates :
               /\ lastRun.candidates[i].type = "rebalance"
               /\ lastRun.candidates[i].binRange =
                      Some(<<AnalyzedEntry.activeId - strategy.balancedConfig[1].targetRange,
                             AnalyzedEntry.activeId + strategy.balancedConfig[1].targetRange>>)

\* C29 as claimed: analyze() returns no rebalance action while less than
\* the minimum rebalance interval has elapsed since execute() last ran a
\* rebalance, whatever the bin movement.
C29_NoRebalanceWithinCooldown ==
    (/\ lastRun.op = "analyze"
     /\ lastRun.outcome = "ok"
     /\ lastRun.rebalancedBefore # Undefined
     /\ lastRun.at - lastRun.rebalancedBefore[1] < minRebalanceInterval)
        => ~HasType(lastRun.actions, "rebalance")

\* C29, amended: analyze() returns no rebalance action while less than the
\* minimum rebalance interval has elapsed since execute() last ran a
\* rebalance, whatever the bin movement, unless cleanup() has reset the
\* strategy since that rebalance.
C29_NoRebalanceWithinCooldownOfOneLifetime ==
    (/\ lastRun.op = "analyze"
     /\ lastRun.outcome = "ok"
     /\ lastRun.rebalancedBefore # Undefined
     /\ ~lastRun.cleanedUpBefore
     /\ lastRun.at - lastRun.rebalancedBefore[1] < minRebalanceInterval)
        => ~HasType(lastRun.actions, "rebalance")

\* within the cooldown of an executed rebalance, the active bin has left
\* the bin recorded last, and no rebalance is returned
C29_Witness ==
    /\ AnalyzedPool
    /\ lastRun.rebalancedBefore # Undefined
    /\ ~lastRun.cleanedUpBefore
    /\ lastRun.at - lastRun.rebalancedBefore[1] < minRebalanceInterval
    /\ strategy.lastActiveBinId # 0
    /\ AnalyzedEntry.activeId # strategy.lastActiveBinId
    /\ ~HasType(lastRun.actions, "rebalance")

\* C30: analyze() of the balanced-liquidity strategy returns no
\* create_position action when the volatility of the strategy's pool
\* exceeds 0.4, whatever volatilityThreshold is configured.
C30_NoCreateAboveVolatilityLimit ==
    (AnalyzedPool /\ AnalyzedEntry.volatility[1] > createVolatilityLimit)
        => ~HasType(lastRun.actions, "create_position")

\* a volatility above 0.4 within the configured threshold: the analysis
\* proposes a position and the filter removes it
C30_Witness ==
    /\ AnalyzedPool
    /\ AnalyzedEntry.volatility[1] > createVolatilityLimit
    /\ AnalyzedEntry.volatility[1] <= lastRun.config[1].riskParameters[1].volatilityThreshold
    /\ HasType(lastRun.candidates, "create_position")
    /\ ~HasType(lastRun.actions, "create_position")

\* C31: whenever the pool's volatility is at or below the volatility
\* ceiling, its APR at or above the floor and its liquidity above the
\* minimum, the analysis produces a create_position candidate whose
\* liquidityAmount is the scaled base allocation clamped into
\* [minLiquidityAmount, maxLiquidityAmount], the bound itself when the scaled
\* value lies outside.
C31_CreateWithClampedSize ==
    (/\ AnalyzedPool
     /\ AnalyzedEntry.volatility[1] <= lastRun.config[1].riskParameters[1].volatilityThreshold
     /\ AnalyzedEntry.apr >= 10
     /\ AnalyzedEntry.liquidity > 10000)
        => \E i \in DOMAIN lastRun.candidates :
               /\ lastRun.candidates[i].type = "create_position"
               /\ lastRun.candidates[i].liquidityAmount =
                      Some(calculateOptimalPositionSize(AnalyzedEntry))

\* what calculatePriority adds up before it clamps, in hundredths of 1/One
PriorityTerms(action, poolData) ==
    100 * One * (50 + (IF action.type = "emergency_exit" THEN 50 ELSE 0)
                    + (IF action.type = "collect_fees" THEN 30 ELSE 0)
                    - (IF poolData.volatility[1] > 30 THEN 20 ELSE 0)
                    + (IF poolData.apr > 20 THEN 15 ELSE 0))
        + (IF action.expectedReturn = Undefined THEN 0
           ELSE IF action.expectedReturn[1] > 2000 * One THEN 2000 * One
           ELSE action.expectedReturn[1])

C33_NoRebalanceWithoutMovement ==
    (AnalyzedPool /\ lastRun.observedBefore = Some(AnalyzedEntry.activeId))
        => ~HasType(lastRun.actions, "rebalance")

\* C34: after every analyze() that found the configured pool's entry, the
\* strategy's lastActiveBinId is that entry's active bin, also when the call
\* was made within the rebalance cooldown.
C34_LastActiveBinIsLastObserved ==
    AnalyzedPool => strategy.lastActiveBinId = AnalyzedEntry.activeId

\* C36: a failed initialize(config) has no effect on the strategy: the
\* configuration held before the call and the initialized flag are as they
\* were, so an initialized strategy keeps filtering against its previous
\* limits.
C36_FailedInitializeHasNoEffect ==
    (lastRun.op = "initialize" /\ lastRun.outcome = "raise") =>
        /\ strategy.config = lastRun.config
        /\ strategy.isInitialized = lastRun.wasInitialized

\* C37: whenever the strategy is initialized, its effective configuration
\* has targetRange >= 1, 0.01 <= rebalanceThreshold <= 1.0 and
\* minLiquidityAmount <= maxLiquidityAmount; initialize() rejects every
\* configuration that would break this, targetRange = 0 and
\* rebalanceThreshold = 0 included.
C37_EffectiveConfigIsValid ==
    /\ strategy.isInitialized =>
           /\ strategy.balancedConfig[1].targetRange >= 1
           /\ strategy.balancedConfig[1].rebalanceThreshold >= 1
           /\ strategy.balancedConfig[1].rebalanceThreshold <= 100
           /\ strategy.balancedConfig[1].minLiquidityAmount
                  <= strategy.balancedConfig[1].maxLiquidityAmount
    /\ (/\ lastRun.op = "initialize"
        /\ \/ onInitialize(lastRun.arg).targetRange < 1
           \/ onInitialize(lastRun.arg).rebalanceThreshold < 1
           \/ onInitialize(lastRun.arg).rebalanceThreshold > 100
           \/ onInitialize(lastRun.arg).minLiquidityAmount
                  > onInitialize(lastRun.arg).maxLiquidityAmount)
           => lastRun.outcome = "raise"

(***************************************************************************)
(* The cache and the tracked set                                           *)
(***************************************************************************)
\* C35: the cached addresses are always among the tracked ones, and a
\* getPoolData of an address that is not tracked when it is called yields
\* null: a refresh that was in flight when removePool was called does not
\* bring the snapshot back.
C35_CachedAreTracked ==
    /\ Cached \subseteq Tracked
    /\ (lastCall.op = "getPoolData" /\ ~lastCall.tracked) => lastCall.outcome = "null"

\* C38: when the refresh of one tracked pool fails in a run of the periodic
\* callback and pools remain after it in the tracked map, the run goes on
\* with the next of them.
C38_TickFailureIsIsolated ==
    [][\A t \in Tickers :
          (TickRefreshFailed(t) /\ tick[t].idx < Len(dlmmInstances)) =>
              /\ tick'[t].pc = "updating"
              /\ tick'[t].addr = dlmmInstances[tick[t].idx + 1]]_vars


(***************************************************************************)
(* getMarketData                                                           *)
(***************************************************************************)
\* the addresses of the snapshots in a pools list
AddressesOf(pools) == {pools[i].address : i \in DOMAIN pools}

\* C39: getMarketData never raises because a refresh fails; the pools list
\* it returns holds a snapshot of every pool that was tracked when the list
\* was complete, except those whose refresh failed in this call, and every
\* snapshot in it is one the cache held.
C39_GetMarketDataNeverRaises ==
    /\ market.pc # "raised"
    /\ market.pc = "returned" =>
           /\ market.tracked \ market.failed \subseteq AddressesOf(market.pools)
           /\ \A i \in DOMAIN market.pools :
                  /\ market.pools[i].address \in Addrs
                  /\ market.pools[i].lastUpdated <= now

\* a call returned although the refresh of one pool failed, with the
\* snapshot of the other tracked pool in its list
C39_Witness ==
    /\ market.pc = "returned"
    /\ market.failed # {}
    /\ market.tracked \ market.failed # {}
    /\ market.tracked \ market.failed \subseteq AddressesOf(market.pools)


(***************************************************************************)
(* emergencyExit                                                           *)
(***************************************************************************)
\* the ids of the ACTIVE rows of a list of positions
ActiveIn(queue) == {queue[i].id : i \in {j \in DOMAIN queue : queue[j].status = "active"}}

\* C40: an EMERGENCY_EXIT without a positionId, once the positions of the
\* pool are listed, attempts to close every ACTIVE one of them, also after
\* a close has failed, and its result has success = false and an error when
\* a close failed.
C40_EmergencyExitClosesAll ==
    (order.pc = "done" /\ order.type = "emergency_exit" /\ ~Truthy(order.positionId) /\ order.listed) =>
        /\ {order.attempted[i] : i \in DOMAIN order.attempted} = ActiveIn(order.queue)
        /\ order.failed # {} => (~order.result.success /\ order.result.error # Undefined)


====
